---- MODULE Spec2Model ----
(***************************************************************************)
(* botrate: bot-aware rate limiter (package botrate) on top of the         *)
(* asynchronous behaviour analyzer (package analyzer).                     *)
(*                                                                         *)
(* State: the analyzer's queue, blocklist snapshot, double-buffered bloom  *)
(* filter and LRU visit counter, the worker goroutine, the ticker, the     *)
(* stop channel, and the Limiter's pool of token buckets (sync.Map         *)
(* "blocked").  src/limiter.go holds two definitions of Limiter.Allow and  *)
(* Limiter.Wait (lines 69-116 and lines 213-271); both are modelled, as    *)
(* AllowFirst/WaitFirst and Allow/Wait.  src/go.mod holds a third version  *)
(* of the file (lines 16-198), whose Wait is modelled as WaitReason.       *)
(*                                                                         *)
(* Besides the Limiter and analyzer specifications, the parts are modelled *)
(* on their own: the copy-on-write publication of the blocklist            *)
(* (SpecPublish), the LRU counter (SpecCounter), the double-buffered       *)
(* filter (SpecBloom), the three versions of New (SpecNew), the queue      *)
(* with capacity for several requests (SpecOrder) and the pool of          *)
(* Request objects (SpecPool).  SpecOwner is the Limiter with the          *)
(* worker across rotations, SpecSameAgent the Limiter under one user       *)
(* agent, SpecLive the analyzer with a fair select in the worker.          *)
(***************************************************************************)
EXTENDS Integers, Sequences, FiniteSets, TLC

\* ------------------------------------------------------------------ inputs
\* Client identities (the ip argument).
IPs == {"ip1", "ip2"}

\* Client identities of the counter's own model: one more than the largest
\* maxSize of MaxSizes.
Clients == IPs \cup {"ip3"}

\* Page strings handed to Analyzer.Record.  Limiter.Allow/Wait pass the
\* request's user agent as the path argument (limiter.go:238, 269), so the
\* user agents of non-bot requests are drawn from the same strings.
Paths == {"/a", "/b"}

\* User agents that the classifier matches as a known bot.
BotUAs == {"Googlebot"}

UserAgents == Paths \cup BotUAs

\* Number of distinct random seeds a zero maphash.Hash may draw.
NumSeeds == 2

Seeds == 0 .. (NumSeeds - 1)

\* Configuration (Config.PageThreshold, Config.QueueCap), scaled down.
PageThreshold == 2

QueueCap == 1

\* Counter.maxSize, scaled down so that eviction happens.
maxSize == 1

\* Number of bits of one bloom generation, scaled down.
BloomBits == 3

Uint16 == 65536

\* ------------------------------------------------------------- map helpers
EmptyMap == [x \in {} |-> 0]

MapPut(f, k, v) == [x \in (DOMAIN f) \cup {k} |-> IF x = k THEN v ELSE f[x]]

MapDel(f, k) == [x \in (DOMAIN f) \ {k} |-> f[x]]

\* ------------------------------------------------------------- classifier
Statuses == {"verified", "pending", "failed", "unknown"}

\* knownbots.Validator.Validate(ua, ip): the external classifier.  Whether a
\* user agent names a known bot is decided by the user agent; the status of
\* the verification depends on lookups outside the program, so every call may
\* report any status.
Validate(ua, ip) ==
    IF ua \in BotUAs
    THEN {[IsBot |-> TRUE, Status |-> s] : s \in Statuses}
    ELSE {[IsBot |-> FALSE, Status |-> "unknown"]}

\* ----------------------------------------------------------------- hashing
StrIdx(s) == CASE s = "/a" -> 0 [] s = "/b" -> 1 [] OTHER -> 2

IpIdx(ip) == CASE ip = "ip1" -> 0 [] OTHER -> 1

NumStrs == Cardinality(Paths)

NumIPs == Cardinality(IPs)

\* hashStr: `var h maphash.Hash` is a zero Hash, which draws a random seed on
\* first use; the digest is a function of (seed, string).  Modelled as an
\* injective encoding of the pair.
hashStr(seed, s) == seed * NumStrs + StrIdx(s)

HashRange == NumSeeds * NumStrs

\* hashIPPath: again a zero maphash.Hash, so again a fresh seed per call.
hashIPPath(seed, ip, pathHash) ==
    (seed * NumIPs + IpIdx(ip)) * HashRange + pathHash

\* u64ToBytes: the 8 bytes of v, least significant first.
RECURSIVE Shr8(_, _)
\* v >> (8 * n).
Shr8(v, n) == IF n = 0 THEN v ELSE Shr8(v \div 256, n - 1)

u64ToBytes(v) == [i \in 1 .. 8 |-> Shr8(v, i - 1) % 256]

\* The page string a path digest was computed from (used by history
\* variables only; the program cannot compute this).
PageOf(pathHash) == CHOOSE s \in Paths : StrIdx(s) = pathHash % NumStrs

\* ------------------------------------------------- dedup filter (bloom.go)
\* The number a key's bytes encode (the filter hashes the bytes of the key).
BytesVal(b) ==
    LET RECURSIVE val(_)
        val(i) == IF i > Len(b) THEN 0 ELSE b[i] + 256 * val(i + 1)
    IN val(1)

RECURSIVE Mix(_)
\* The filter's hash of a key mixes every bit of it: the number of one bits.
Mix(v) == IF v = 0 THEN 0 ELSE (v % 2) + Mix(v \div 2)

\* Bit positions of a key in a filter of BloomBits bits (one hash function).
BloomLocations(key) == {Mix(BytesVal(key)) % BloomBits}

\* bloom.BloomFilter.Test: every position of the key is set.
BloomTest(bits, key) == BloomLocations(key) \subseteq bits

\* bloom.BloomFilter.Add: set every position of the key.
BloomAdd(bits, key) == bits \cup BloomLocations(key)

\* NewDoubleBufferBloom: two empty generations.
NewDoubleBufferBloom == [current |-> {}, previous |-> {}]

\* Mutant: the previous generation is tested as well.
TestAndAddBoth(dbf, key) ==
    IF BloomTest(dbf.current, key) \/ BloomTest(dbf.previous, key)
    THEN [seen |-> TRUE, bloom |-> dbf]
    ELSE [seen |-> FALSE,
          bloom |-> [dbf EXCEPT !.current = BloomAdd(dbf.current, key)]]

\* DoubleBufferBloom.TestAndAdd: tests current only; adds when absent.
\* Result: [seen, bloom].
TestAndAdd(dbf, key) ==
    IF BloomTest(dbf.current, key)
    THEN [seen |-> TRUE, bloom |-> dbf]
    ELSE [seen |-> FALSE,
          bloom |-> [dbf EXCEPT !.current = BloomAdd(dbf.current, key)]]

\* DoubleBufferBloom.Rotate: current becomes previous, a fresh current.
Rotate(dbf) == [current |-> {}, previous |-> dbf.current]

\* ----------------------------------------------- visit counter (counter.go)
\* data: ip -> count; lru: recency list, front first; index: ip -> list
\* element, modelled by the set of ips that have an element; maxSize: the
\* field of that name, which NewCounter sets and the tests overwrite.
NewCounter ==
    [maxSize |-> maxSize, data |-> EmptyMap, lru |-> << >>, index |-> {}]

SeqRemove(q, x) == SelectSeq(q, LAMBDA y : y # x)

MoveToFront(q, x) == <<x>> \o SeqRemove(q, x)

\* Mutant: a visit of an existing client adds two.
VisitSkips(c, ip) ==
    IF ip \in c.index
    THEN LET count == (c.data[ip] + 2) % Uint16
         IN [count |-> count,
             counter |-> [c EXCEPT !.data = MapPut(c.data, ip, count),
                                   !.lru = MoveToFront(c.lru, ip)]]
    ELSE LET evict == Cardinality(DOMAIN c.data) >= c.maxSize /\ Len(c.lru) > 0
             tailIP == c.lru[Len(c.lru)]
             d == IF evict THEN MapDel(c.data, tailIP) ELSE c.data
             ix == IF evict THEN c.index \ {tailIP} ELSE c.index
             l == IF evict THEN SubSeq(c.lru, 1, Len(c.lru) - 1) ELSE c.lru
         IN [count |-> 1,
             counter |-> [maxSize |-> c.maxSize,
                          data |-> MapPut(d, ip, 1),
                          lru |-> <<ip>> \o l,
                          index |-> ix \cup {ip}]]

\* Mutant: an eviction leaves the victim's entry in the index.
VisitKeepsIndex(c, ip) ==
    IF ip \in c.index
    THEN LET count == (c.data[ip] + 1) % Uint16
         IN [count |-> count,
             counter |-> [c EXCEPT !.data = MapPut(c.data, ip, count),
                                   !.lru = MoveToFront(c.lru, ip)]]
    ELSE LET evict == Cardinality(DOMAIN c.data) >= c.maxSize /\ Len(c.lru) > 0
             tailIP == c.lru[Len(c.lru)]
             d == IF evict THEN MapDel(c.data, tailIP) ELSE c.data
             l == IF evict THEN SubSeq(c.lru, 1, Len(c.lru) - 1) ELSE c.lru
         IN [count |-> 1,
             counter |-> [maxSize |-> c.maxSize,
                          data |-> MapPut(d, ip, 1),
                          lru |-> <<ip>> \o l,
                          index |-> c.index \cup {ip}]]

\* Mutant: an existing client's count is stored but the old one is returned.
VisitStale(c, ip) ==
    IF ip \in c.index
    THEN LET count == (c.data[ip] + 1) % Uint16
         IN [count |-> c.data[ip],
             counter |-> [c EXCEPT !.data = MapPut(c.data, ip, count),
                                   !.lru = MoveToFront(c.lru, ip)]]
    ELSE LET evict == Cardinality(DOMAIN c.data) >= c.maxSize /\ Len(c.lru) > 0
             tailIP == c.lru[Len(c.lru)]
             d == IF evict THEN MapDel(c.data, tailIP) ELSE c.data
             ix == IF evict THEN c.index \ {tailIP} ELSE c.index
             l == IF evict THEN SubSeq(c.lru, 1, Len(c.lru) - 1) ELSE c.lru
         IN [count |-> 1,
             counter |-> [maxSize |-> c.maxSize,
                          data |-> MapPut(d, ip, 1),
                          lru |-> <<ip>> \o l,
                          index |-> ix \cup {ip}]]

\* Mutant: a visit of an existing client does not move it to the front.
VisitNoRefresh(c, ip) ==
    IF ip \in c.index
    THEN LET count == (c.data[ip] + 1) % Uint16
         IN [count |-> count,
             counter |-> [c EXCEPT !.data = MapPut(c.data, ip, count)]]
    ELSE LET evict == Cardinality(DOMAIN c.data) >= c.maxSize /\ Len(c.lru) > 0
             tailIP == c.lru[Len(c.lru)]
             d == IF evict THEN MapDel(c.data, tailIP) ELSE c.data
             ix == IF evict THEN c.index \ {tailIP} ELSE c.index
             l == IF evict THEN SubSeq(c.lru, 1, Len(c.lru) - 1) ELSE c.lru
         IN [count |-> 1,
             counter |-> [maxSize |-> c.maxSize,
                          data |-> MapPut(d, ip, 1),
                          lru |-> <<ip>> \o l,
                          index |-> ix \cup {ip}]]

\* Counter.Visit.  Result: [count, counter].
Visit(c, ip) ==
    IF ip \in c.index
    THEN LET count == (c.data[ip] + 1) % Uint16
         IN [count |-> count,
             counter |-> [c EXCEPT !.data = MapPut(c.data, ip, count),
                                   !.lru = MoveToFront(c.lru, ip)]]
    ELSE LET evict == Cardinality(DOMAIN c.data) >= c.maxSize /\ Len(c.lru) > 0
             tailIP == c.lru[Len(c.lru)]
             d == IF evict THEN MapDel(c.data, tailIP) ELSE c.data
             ix == IF evict THEN c.index \ {tailIP} ELSE c.index
             l == IF evict THEN SubSeq(c.lru, 1, Len(c.lru) - 1) ELSE c.lru
         IN [count |-> 1,
             counter |-> [maxSize |-> c.maxSize,
                          data |-> MapPut(d, ip, 1),
                          lru |-> <<ip>> \o l,
                          index |-> ix \cup {ip}]]

\* Counter.Count: the zero value for an absent client.
Count(c, ip) == IF ip \in DOMAIN c.data THEN c.data[ip] ELSE 0

\* Mutant: Count marks the client it finds as the most recently used.
CountCallTouches(c, ip) ==
    [count |-> Count(c, ip),
     counter |-> IF ip \in c.index
                 THEN [c EXCEPT !.lru = MoveToFront(c.lru, ip)] ELSE c]

\* The call c.Count(ip) with what it leaves of the counter: the map read
\* c.data[ip] writes nothing and touches neither list nor index.  Result:
\* [count, counter].
CountCall(c, ip) == [count |-> Count(c, ip), counter |-> c]

\* Mutant: Clear makes new maps and keeps the recency list.
ClearKeepsList(c) ==
    [maxSize |-> c.maxSize, data |-> EmptyMap, lru |-> c.lru, index |-> {}]

\* Counter.Clear.
Clear(c) ==
    [maxSize |-> c.maxSize, data |-> EmptyMap, lru |-> << >>, index |-> {}]

\* ------------------------------------------------- analyzer (analyzer.go)
\* Mutant: the published set is not copied, the new set holds ip alone.
blockNoCopy(bl, ip) == IF ip \in bl THEN bl ELSE {ip}

\* Analyzer.block: copy the published set, add ip, publish; no-op if present.
block(bl, ip) == IF ip \in bl THEN bl ELSE bl \cup {ip}

\* Mutant: the threshold is compared with > instead of >=.
analyzeStrict(dbf, c, bl, req, seed) ==
    LET key == hashIPPath(seed, req.IP, req.Path)
        t == TestAndAdd(dbf, u64ToBytes(key))
        v == Visit(c, req.IP)
    IN IF t.seen
       THEN [bloom |-> t.bloom, counter |-> c, blocklist |-> bl,
             seen |-> TRUE, count |-> 0]
       ELSE [bloom |-> t.bloom, counter |-> v.counter,
             blocklist |-> IF v.count > PageThreshold
                           THEN block(bl, req.IP) ELSE bl,
             seen |-> FALSE, count |-> v.count]

\* Analyzer.analyze on request req with the seed hashIPPath drew.
\* Result: [bloom, counter, blocklist, seen, count].
analyze(dbf, c, bl, req, seed) ==
    LET key == hashIPPath(seed, req.IP, req.Path)
        t == TestAndAdd(dbf, u64ToBytes(key))
        v == Visit(c, req.IP)
    IN IF t.seen
       THEN [bloom |-> t.bloom, counter |-> c, blocklist |-> bl,
             seen |-> TRUE, count |-> 0]
       ELSE [bloom |-> t.bloom, counter |-> v.counter,
             blocklist |-> IF v.count >= PageThreshold
                           THEN block(bl, req.IP) ELSE bl,
             seen |-> FALSE, count |-> v.count]

\* Mutant: the send has no default case and always puts the request in.
RecordNoDrop(q, ip, path, seed) ==
    Append(q, [IP |-> ip, Path |-> hashStr(seed, path)])

\* Analyzer.Record: non-blocking send; a full queue drops the request.
\* Result: the new queue.
Record(q, ip, path, seed) ==
    LET req == [IP |-> ip, Path |-> hashStr(seed, path)]
    IN IF Len(q) < QueueCap THEN Append(q, req) ELSE q

\* Analyzer.Blocked: membership in the published snapshot.
Blocked(bl, ip) == ip \in bl

\* --------------------------------------------------- limiter (limiter.go)
\* ErrLimit = context.DeadlineExceeded (the sentinel is that very value).
ErrLimit == "context.DeadlineExceeded"

\* A caller's context at the time of the call: live, or already canceled.
Contexts == {"live", "canceled"}

\* ctx.Err() of a context that has ended.
CtxErr(ctx) == "context.Canceled"

\* rate.NewLimiter(l.cfg.Limit, 1): a bucket of burst 1, full at creation.
NewLimiter == 1

\* Mutant: getLimiter constructs and stores a limiter on every call.
getLimiterReplace(pool, ip) == MapPut(pool, ip, NewLimiter)

\* Limiter.getLimiter: Load, else LoadOrStore of a new bucket.  Result: the
\* pool afterwards; the limiter handed back is its entry for ip.
getLimiter(pool, ip) ==
    IF ip \in DOMAIN pool THEN pool ELSE MapPut(pool, ip, NewLimiter)

\* Mutant: the bucket is not asked, a blocked ip is always let through.
allowBlockedNoCheck(pool, ip) ==
    [ok |-> TRUE, pool |-> getLimiter(pool, ip)]

\* Limiter.allowBlocked: getLimiter, then rate.Limiter.Allow, which takes a
\* token if there is one.  Result: [ok, pool].
allowBlocked(pool, ip) ==
    LET p == getLimiter(pool, ip)
    IN IF p[ip] > 0
       THEN [ok |-> TRUE, pool |-> MapPut(p, ip, p[ip] - 1)]
       ELSE [ok |-> FALSE, pool |-> p]

\* Limiter.waitBlocked: getLimiter, then rate.Limiter.Wait(ctx).  A context
\* that has ended returns its error; a token at hand is taken; otherwise the
\* caller sleeps until the next token (taking it), or its context ends first
\* (the reservation is given back), or the deadline is known to be too early
\* (the library's own error).  Result: the set of possible [err, pool].
waitBlocked(pool, ip, ctx) ==
    LET p == getLimiter(pool, ip)
    IN IF ctx # "live"
       THEN {[err |-> CtxErr(ctx), pool |-> p]}
       ELSE IF p[ip] > 0
       THEN {[err |-> "nil", pool |-> MapPut(p, ip, p[ip] - 1)]}
       ELSE {[err |-> e, pool |-> p] :
                e \in {"nil", "context.Canceled", "context.DeadlineExceeded",
                       "rate: would exceed context deadline"}}

VARIABLES
    queue,      \* Analyzer.queue: buffered channel of requests
    blocklist,  \* Analyzer.blocklist: the published snapshot (set of ips)
    bloom,      \* Analyzer.bloom
    counter,    \* Analyzer.counter
    stop,       \* Analyzer.stop is closed
    worker,     \* the worker goroutine: "running" or "stopped"
    tick,       \* a tick is pending in ticker.C
    blocked,    \* Limiter.blocked: ip -> tokens of its bucket
    pages,      \* history: pages of each ip the worker processed since the
                \* last rotation
    fpos,       \* history: ips of which the filter reported a page seen that
                \* the worker had not processed since the last rotation
    evicted,    \* history: ips whose counter entry was evicted since the
                \* last rotation
    ret,        \* the call made by the last step, and what it returned
    callers,    \* goroutines inside Limiter.Allow, Wait or Close: where each
                \* one stands and what it holds (step-wise model only)
    made,       \* identity of the rate.Limiter stored for an ip: the caller
                \* that constructed it (step-wise model only)
    admitted,   \* history: blocked ips admitted at once (a token taken on the
                \* spot) since their bucket last refilled (step-wise model only)
    kb,         \* Limiter.kb: the classifier New has installed ("ready"), the
                \* nil pointer ("nil"), or "none" while no Limiter exists
    maps,       \* the heap of blocklist maps: identity -> keys (step-wise
                \* model of publication only)
    ptr,        \* Analyzer.blocklist: the identity of the published map
                \* (step-wise model of publication only)
    snap,       \* history: the keys every published map held when it was
                \* published
    visits,     \* history: number of Visit calls for each client since the
                \* last Clear
    recency,    \* history: the clients visited since the last Clear, the
                \* latest visited first
    added,      \* history: the keys TestAndAdd was applied to in the current
                \* generation
    enq,        \* history: the requests the queue accepted, in order
    proc,       \* history: the requests the worker analyzed, in order
    last,       \* history: what the latest Visit of each client returned
                \* since the last Clear, 0 if there was none
    objs,       \* the heap of Request objects: identity -> fields (step-wise
                \* model of the request pool only)
    free,       \* Analyzer.pool: the identities of the objects it holds
    taken,      \* the object the worker received and has not put back, and
                \* whether it was analyzed
    recording   \* goroutines inside Analyzer.Record: where each one stands
                \* and the object it holds

vars == <<queue, blocklist, bloom, counter, stop, worker, tick, blocked,
          pages, fpos, evicted, ret, callers, made, admitted, kb, maps, ptr,
          snap, visits, recency, added, enq, proc, last, objs, free, taken,
          recording>>

\* The variables only the step-wise model of the request pool moves.
poolVars == <<objs, free, taken, recording>>

\* The variables only the models of single components move.
unit == <<kb, maps, ptr, snap, visits, recency, added, enq, proc, last,
          poolVars>>

\* The variables only the step-wise model of concurrent callers moves.
conc == <<callers, made, admitted>>

history == <<pages, fpos, evicted>>

analyzerVars == <<queue, blocklist, bloom, counter, stop, worker, tick, history>>

NoCall ==
    [op |-> "none", ip |-> "", isBot |-> FALSE, status |-> "", out |-> "",
     nrec |-> 0]

\* The worker holds no request.
NoReq == [id |-> 0, analyzed |-> FALSE]

\* Goroutines that call into the Limiter concurrently.
Procs == {"c1", "c2", "c3"}

\* A goroutine that enters a call.  pc: the statement it stands before; op,
\* ip: the call it is in and its client; lim: the rate.Limiter it holds
\* (its constructor, or "orphan" once that limiter was deleted from the
\* pool); orph, tok: for an orphan, the goroutines that held it when it was
\* deleted (two goroutines hold the same orphan exactly when these sets are
\* equal) and the tokens it has; via: the call of getLimiter that handed
\* it the limiter (Load or LoadOrStore); todo, done: the keys its Range has
\* yet to visit and has visited.
InCall ==
    [pc |-> "entry", op |-> "none", ip |-> "", lim |-> "none", orph |-> {},
     tok |-> 0, via |-> "none", todo |-> {}, done |-> {}]

\* analyzer.New and botrate.New.
Init ==
    /\ queue = << >>
    /\ blocklist = {}
    /\ bloom = NewDoubleBufferBloom
    /\ counter = NewCounter
    /\ stop = FALSE
    /\ worker = "running"
    /\ tick = FALSE
    /\ blocked = EmptyMap
    /\ pages = [ip \in IPs |-> {}]
    /\ fpos = {}
    /\ evicted = {}
    /\ ret = NoCall
    /\ callers = EmptyMap
    /\ made = EmptyMap
    /\ admitted = {}
    /\ kb = "ready"
    /\ maps = [id \in {1} |-> {}]
    /\ ptr = 1
    /\ snap = [id \in {1} |-> {}]
    /\ visits = EmptyMap
    /\ recency = << >>
    /\ added = {}
    /\ enq = << >>
    /\ proc = << >>
    /\ objs = EmptyMap
    /\ free = {}
    /\ taken = NoReq
    /\ recording = EmptyMap
    /\ last = [ip \in Clients |-> 0]

Effect(out, q, pool, nrec) ==
    [out |-> out, queue |-> q, pool |-> pool, nrec |-> nrec]

\* The effects below are sets: one effect for every seed hashStr may draw and
\* for every way the bucket's blocking wait may end.  nrec is the number of
\* times the path taken calls Analyzer.Record.

\* Mutant: Record is called before the blocklist is checked.
AllowUserRecordsFirst(q, bl, pool, ua, ip) ==
    IF Blocked(bl, ip)
    THEN LET a == allowBlocked(pool, ip)
         IN {Effect(IF a.ok THEN "true" ELSE "false",
                    Record(q, ip, ua, seed), a.pool, 1) : seed \in Seeds}
    ELSE {Effect("true", Record(q, ip, ua, seed), pool, 1) : seed \in Seeds}

\* Layers 2 and 3 of Allow, the same in both definitions (limiter.go:82-90,
\* 231-239): a blocked ip goes to its bucket, any other is recorded and let
\* through.
AllowUser(q, bl, pool, ua, ip) ==
    IF Blocked(bl, ip)
    THEN LET a == allowBlocked(pool, ip)
         IN {Effect(IF a.ok THEN "true" ELSE "false", q, a.pool, 0)}
    ELSE {Effect("true", Record(q, ip, ua, seed), pool, 1) : seed \in Seeds}

\* Mutant: the verified case is missing, a verified bot is treated as a user.
AllowDecideNoVerified(q, bl, pool, ua, ip, res) ==
    IF res.IsBot /\ res.Status = "pending"
    THEN {Effect("true", q, pool, 0)}
    ELSE IF res.IsBot /\ res.Status \in {"failed", "unknown"}
    THEN {Effect("false", q, pool, 0)}
    ELSE AllowUser(q, bl, pool, ua, ip)

\* Limiter.Allow, second definition (limiter.go:213-240).
AllowDecide(q, bl, pool, ua, ip, res) ==
    IF res.IsBot /\ res.Status \in {"verified", "pending"}
    THEN {Effect("true", q, pool, 0)}
    ELSE IF res.IsBot /\ res.Status \in {"failed", "unknown"}
    THEN {Effect("false", q, pool, 0)}
    ELSE AllowUser(q, bl, pool, ua, ip)

\* Limiter.Allow, first definition (limiter.go:69-91): every bot that is not
\* verified is sent to its bucket.
AllowFirstDecide(q, bl, pool, ua, ip, res) ==
    IF res.IsBot /\ res.Status = "verified"
    THEN {Effect("true", q, pool, 0)}
    ELSE IF res.IsBot
    THEN LET a == allowBlocked(pool, ip)
         IN {Effect(IF a.ok THEN "true" ELSE "false", q, a.pool, 0)}
    ELSE AllowUser(q, bl, pool, ua, ip)

\* Mutant: Wait looks at its context before anything else.
WaitUserChecksCtx(q, bl, pool, ctx, ua, ip) ==
    IF ctx # "live"
    THEN {Effect(CtxErr(ctx), q, pool, 0)}
    ELSE IF Blocked(bl, ip)
    THEN {Effect(w.err, q, w.pool, 0) : w \in waitBlocked(pool, ip, ctx)}
    ELSE {Effect("nil", Record(q, ip, ua, seed), pool, 1) : seed \in Seeds}

\* Layers 2 and 3 of Wait (limiter.go:107-115, 262-270).
WaitUser(q, bl, pool, ctx, ua, ip) ==
    IF Blocked(bl, ip)
    THEN {Effect(w.err, q, w.pool, 0) : w \in waitBlocked(pool, ip, ctx)}
    ELSE {Effect("nil", Record(q, ip, ua, seed), pool, 1) : seed \in Seeds}

\* Limiter.Wait, second definition (limiter.go:244-271).
WaitDecide(q, bl, pool, ctx, ua, ip, res) ==
    IF res.IsBot /\ res.Status \in {"verified", "pending"}
    THEN {Effect("nil", q, pool, 0)}
    ELSE IF res.IsBot /\ res.Status \in {"failed", "unknown"}
    THEN {Effect(ErrLimit, q, pool, 0)}
    ELSE WaitUser(q, bl, pool, ctx, ua, ip)

\* Limiter.Wait, first definition (limiter.go:94-116).
WaitFirstDecide(q, bl, pool, ctx, ua, ip, res) ==
    IF res.IsBot /\ res.Status = "verified"
    THEN {Effect("nil", q, pool, 0)}
    ELSE IF res.IsBot
    THEN {Effect(w.err, q, w.pool, 0) : w \in waitBlocked(pool, ip, ctx)}
    ELSE WaitUser(q, bl, pool, ctx, ua, ip)

\* Limiter.Wait as src/go.mod holds it (go.mod:134-167; it returns an error
\* and a reason, of which the error is modelled): as the second definition,
\* but a blocked client whose wait on the bucket ended without error gets
\* ErrLimit.  Limiter.Allow of that version (go.mod:101-128) decides as the
\* second definition does and adds the reason.
WaitReasonDecide(q, bl, pool, ctx, ua, ip, res) ==
    IF res.IsBot /\ res.Status \in {"verified", "pending"}
    THEN {Effect("nil", q, pool, 0)}
    ELSE IF res.IsBot /\ res.Status \in {"failed", "unknown"}
    THEN {Effect(ErrLimit, q, pool, 0)}
    ELSE IF Blocked(bl, ip)
    THEN {Effect(IF w.err = "nil" THEN ErrLimit ELSE w.err, q, w.pool, 0) :
             w \in waitBlocked(pool, ip, ctx)}
    ELSE {Effect("nil", Record(q, ip, ua, seed), pool, 1) : seed \in Seeds}

\* One call of Allow or Wait for ip with classifier result res and effect e.
Call(op, ip, res, e) ==
    /\ queue' = e.queue
    /\ blocked' = e.pool
    /\ ret' = [op |-> op, ip |-> ip, isBot |-> res.IsBot,
               status |-> res.Status, out |-> e.out, nrec |-> e.nrec]
    /\ UNCHANGED <<blocklist, bloom, counter, stop, worker, tick, history>>
    /\ UNCHANGED conc
    /\ UNCHANGED unit

Allow(ua, ip) ==
    \E res \in Validate(ua, ip) :
        \E e \in AllowDecide(queue, blocklist, blocked, ua, ip, res) :
            Call("Allow", ip, res, e)

AllowFirst(ua, ip) ==
    \E res \in Validate(ua, ip) :
        \E e \in AllowFirstDecide(queue, blocklist, blocked, ua, ip, res) :
            Call("Allow", ip, res, e)

\* Wait is called with any context.
Wait(ua, ip) ==
    \E res \in Validate(ua, ip) :
        \E e \in UNION {WaitDecide(queue, blocklist, blocked, ctx, ua, ip, res) :
                           ctx \in Contexts} :
            Call("Wait", ip, res, e)

WaitFirst(ua, ip) ==
    \E res \in Validate(ua, ip) :
        \E e \in UNION {WaitFirstDecide(queue, blocklist, blocked, ctx, ua, ip,
                                        res) : ctx \in Contexts} :
            Call("Wait", ip, res, e)

WaitReason(ua, ip) ==
    \E res \in Validate(ua, ip) :
        \E e \in UNION {WaitReasonDecide(queue, blocklist, blocked, ctx, ua, ip,
                                         res) : ctx \in Contexts} :
            Call("Wait", ip, res, e)

\* Time passes: the bucket of ip regains its token (burst 1).
Refill(ip) ==
    /\ ip \in DOMAIN blocked
    /\ blocked[ip] < NewLimiter
    /\ blocked' = MapPut(blocked, ip, NewLimiter)
    /\ ret' = NoCall
    /\ admitted' = admitted \ {ip}
    /\ UNCHANGED <<analyzerVars, callers, made>>
    /\ UNCHANGED unit

\* Analyzer.Close: close(a.stop) unless it is closed.
AnalyzerClose(stopped) == IF stopped THEN stopped ELSE TRUE

\* Mutant: Limiter.Close also clears the analyzer's counter.
CloseClears ==
    /\ stop' = AnalyzerClose(stop)
    /\ blocked' = EmptyMap
    /\ counter' = Clear(counter)
    /\ ret' = NoCall
    /\ UNCHANGED <<queue, blocklist, bloom, worker, tick, history>>
    /\ UNCHANGED conc
    /\ UNCHANGED unit

\* Limiter.Close (limiter.go:293-300): Analyzer.Close, then every entry of
\* the pool is deleted.
Close ==
    /\ stop' = AnalyzerClose(stop)
    /\ blocked' = EmptyMap
    /\ ret' = NoCall
    /\ UNCHANGED <<queue, blocklist, bloom, counter, worker, tick, history>>
    /\ UNCHANGED conc
    /\ UNCHANGED unit

\* The ticker fires (time.NewTicker: a channel of capacity 1; a tick that
\* finds one pending is dropped).
Tick ==
    /\ worker = "running"
    /\ ~tick
    /\ tick' = TRUE
    /\ ret' = NoCall
    /\ UNCHANGED <<queue, blocklist, bloom, counter, stop, worker, blocked,
                   history, conc>>
    /\ UNCHANGED unit

\* Analyzer.worker, case req := <-a.queue: the head of the queue is received
\* and analyzed with result a.
workerReceive(a) ==
    /\ bloom' = a.bloom
    /\ counter' = a.counter
    /\ blocklist' = a.blocklist
    /\ queue' = Tail(queue)
    /\ ret' = NoCall
    /\ UNCHANGED <<stop, worker, tick, blocked, conc>>
    /\ UNCHANGED unit

\* Mutant: the counter is not cleared.
rotateNoClear(dbf, c) == [bloom |-> Rotate(dbf), counter |-> c]

\* Analyzer.rotate.  Result: [bloom, counter].
rotate(dbf, c) == [bloom |-> Rotate(dbf), counter |-> Clear(c)]

\* Analyzer.worker, case <-ticker.C: rotate.
workerRotateStep ==
    /\ worker = "running"
    /\ tick
    /\ tick' = FALSE
    /\ LET r == rotate(bloom, counter)
       IN bloom' = r.bloom /\ counter' = r.counter
    /\ ret' = NoCall
    /\ UNCHANGED <<queue, blocklist, stop, worker, blocked, conc>>
    /\ UNCHANGED unit

\* Mutant: the stop case is taken only when no request waits.
workerStopWhenIdle ==
    /\ worker = "running"
    /\ stop
    /\ Len(queue) = 0
    /\ worker' = "stopped"
    /\ tick' = FALSE
    /\ ret' = NoCall
    /\ UNCHANGED <<queue, blocklist, bloom, counter, stop, blocked, history,
                   conc>>
    /\ UNCHANGED unit

\* Analyzer.worker, case <-a.stop: return (the deferred ticker.Stop runs).
workerStop ==
    /\ worker = "running"
    /\ stop
    /\ worker' = "stopped"
    /\ tick' = FALSE
    /\ ret' = NoCall
    /\ UNCHANGED <<queue, blocklist, bloom, counter, stop, blocked, history,
                   conc>>
    /\ UNCHANGED unit

\* ------------------------------------------- the Limiter and its analyzer
\* The Limiter's calls and the worker within one analysis window (Window is
\* minutes long: no tick arrives); the history variable pages is not kept.
workerAnalyze ==
    /\ worker = "running"
    /\ Len(queue) > 0
    /\ \E seed \in Seeds :
          workerReceive(analyze(bloom, counter, blocklist, Head(queue), seed))
    /\ UNCHANGED history

Next ==
    \/ \E ua \in UserAgents, ip \in IPs : Allow(ua, ip)
    \/ \E ua \in UserAgents, ip \in IPs : AllowFirst(ua, ip)
    \/ \E ua \in UserAgents, ip \in IPs : Wait(ua, ip)
    \/ \E ua \in UserAgents, ip \in IPs : WaitFirst(ua, ip)
    \/ \E ip \in IPs : Refill(ip)
    \/ Close
    \/ workerAnalyze
    \/ workerStop

Spec == Init /\ [][Next]_vars

\* The Limiter of src/go.mod, whose Allow and Wait also return a reason:
\* its Allow decides as the second definition in limiter.go does.
NextReason ==
    \/ \E ua \in UserAgents, ip \in IPs : Allow(ua, ip)
    \/ \E ua \in UserAgents, ip \in IPs : WaitReason(ua, ip)
    \/ \E ip \in IPs : Refill(ip)
    \/ Close
    \/ workerAnalyze
    \/ workerStop

SpecReason == Init /\ [][NextReason]_vars

\* ------------------------------------- clients that never change their UA
\* The Limiter and the worker when every request of every client carries
\* one and the same user agent, that of a non-bot.
SameAgent == "/a"

NextSameAgent ==
    \/ \E ip \in IPs : Allow(SameAgent, ip)
    \/ \E ip \in IPs : Wait(SameAgent, ip)
    \/ \E ip \in IPs : Refill(ip)
    \/ Close
    \/ workerAnalyze
    \/ workerStop

SpecSameAgent == Init /\ [][NextSameAgent]_vars

\* ------------------------------------------ the Limiter across rotations
\* The calls of the Limiter (the second definitions of limiter.go) and the
\* worker with its ticker: callers and worker over several generations.
\* Mutant: the ticker case is taken only when no request waits.
ownerRotateWhenIdle ==
    /\ Len(queue) = 0
    /\ workerRotateStep
    /\ UNCHANGED history

\* Analyzer.worker, case <-ticker.C.
ownerRotate ==
    /\ workerRotateStep
    /\ UNCHANGED history

NextOwner ==
    \/ \E ua \in UserAgents, ip \in IPs : Allow(ua, ip)
    \/ \E ua \in UserAgents, ip \in IPs : Wait(ua, ip)
    \/ \E ip \in IPs : Refill(ip)
    \/ Close
    \/ Tick
    \/ workerAnalyze
    \/ ownerRotate
    \/ workerStop

SpecOwner == Init /\ [][NextOwner]_vars

\* ------------------------------------------- the analyzer package alone
\* Analyzer.Record and Analyzer.Close called on the analyzer itself, the
\* ticker, and the worker, with the history of the current generation.
AnalyzerRecord(ip, path) ==
    /\ \E seed \in Seeds : queue' = Record(queue, ip, path, seed)
    /\ ret' = NoCall
    /\ UNCHANGED <<blocklist, bloom, counter, stop, worker, tick, blocked,
                   history, conc>>
    /\ UNCHANGED unit

AnalyzerCloseCall ==
    /\ stop' = AnalyzerClose(stop)
    /\ ret' = NoCall
    /\ UNCHANGED <<queue, blocklist, bloom, counter, worker, tick, blocked,
                   history, conc>>
    /\ UNCHANGED unit

\* What the analysis of the head of the queue with result a adds to the
\* history: its page, whether the filter swallowed a page that is new in this
\* generation, and whose counter entry the visit evicted.
History(a) ==
    LET ip == Head(queue).IP
        page == PageOf(Head(queue).Path)
    IN /\ pages' = [pages EXCEPT ![ip] = @ \cup {page}]
       /\ fpos' = IF a.seen /\ page \notin pages[ip]
                  THEN fpos \cup {ip} ELSE fpos
       /\ evicted' = evicted \cup
                       ((DOMAIN counter.data) \ (DOMAIN a.counter.data))

workerAnalyzeH ==
    /\ worker = "running"
    /\ Len(queue) > 0
    /\ \E seed \in Seeds :
          LET a == analyze(bloom, counter, blocklist, Head(queue), seed)
          IN workerReceive(a) /\ History(a)

workerRotateH ==
    /\ workerRotateStep
    /\ pages' = [ip \in IPs |-> {}]
    /\ fpos' = {}
    /\ evicted' = {}

NextAnalyzer ==
    \/ \E ip \in IPs, path \in Paths : AnalyzerRecord(ip, path)
    \/ AnalyzerCloseCall
    \/ Tick
    \/ workerAnalyzeH
    \/ workerRotateH
    \/ workerStop

\* The step by which the worker takes the head of the queue: of the steps of
\* NextAnalyzer, exactly those of workerAnalyzeH.
queueReceive ==
    worker = "running" /\ Len(queue) > 0 /\ queue' = Tail(queue)

\* The worker's select picks at random among its ready cases, so a request
\* that stays at the head of the queue is eventually received.
SpecAnalyzer == Init /\ [][NextAnalyzer]_vars /\ WF_queue(queueReceive)

\* ----------------------------------------- the worker's select, fairly
\* Analyzer.Record, Analyzer.Close, the ticker and the worker.  The worker
\* goroutine keeps running, and its select picks uniformly at random among
\* the cases that are ready (analyzer.go:94-102): a case that stays ready
\* is eventually the one picked.  Each of the three cases, once ready, stays
\* ready until the worker takes it or returns (the stop channel stays
\* closed, the tick stays in ticker.C, the request stays at the head of the
\* queue), so weak fairness of each case says just that (for the receive
\* from the queue through its step predicate queueReceive).
NextLive ==
    \/ \E ip \in IPs, path \in Paths : AnalyzerRecord(ip, path)
    \/ AnalyzerCloseCall
    \/ Tick
    \/ workerAnalyze
    \/ ownerRotate
    \/ workerStop

SpecLive ==
    /\ Init
    /\ [][NextLive]_vars
    /\ WF_vars(workerStop)
    /\ WF_vars(ownerRotate)
    /\ WF_queue(queueReceive)

\* ------------------------------------- concurrent callers, step by step
\* Limiter.Allow and Limiter.Wait for a non-bot and Limiter.Close, each
\* statement that touches shared state a step of its own, so that the calls
\* of several goroutines interleave.  The analyzer's worker takes no step
\* here; the blocklist is one a run of the analyzer has produced.

\* The goroutines that call Close.
Closers == {"c1", "c2"}

\* The goroutines that call Allow and Wait: one of them also calls Close.
Callers == {"c2", "c3"}

\* The clients the analyzer has promoted before the calls start.
BlockedAtStart == {"ip1"}

InitConc ==
    /\ queue = << >>
    /\ blocklist = BlockedAtStart
    /\ bloom = NewDoubleBufferBloom
    /\ counter = NewCounter
    /\ stop = FALSE
    /\ worker = "running"
    /\ tick = FALSE
    /\ blocked = EmptyMap
    /\ pages = [ip \in IPs |-> {}]
    /\ fpos = {}
    /\ evicted = {}
    /\ ret = NoCall
    /\ callers = EmptyMap
    /\ made = EmptyMap
    /\ admitted = {}
    /\ kb = "ready"
    /\ maps = [id \in {1} |-> BlockedAtStart]
    /\ ptr = 1
    /\ snap = [id \in {1} |-> BlockedAtStart]
    /\ visits = EmptyMap
    /\ recency = << >>
    /\ added = {}
    /\ enq = << >>
    /\ proc = << >>
    /\ objs = EmptyMap
    /\ free = {}
    /\ taken = NoReq
    /\ recording = EmptyMap
    /\ last = [ip \in Clients |-> 0]

\* The statement goroutine p stands before; a goroutine that is in no call
\* is idle.
Pc(p) == IF p \in DOMAIN callers THEN callers[p].pc ELSE "idle"

\* Goroutine q holds a limiter that Close has deleted from the pool.
Orphan(q) == Pc(q) = "take" /\ callers[q].lim = "orphan"

\* A goroutine panicked: the Go runtime ends the process, nothing runs on.
Panicked == \E p \in Procs : Pc(p) = "panic"

\* Mutant: Store in place of LoadOrStore, the last writer wins.
StoreOverwrite(pool, mk, ip, p) ==
    [pool |-> MapPut(pool, ip, NewLimiter), made |-> MapPut(mk, ip, p),
     actual |-> p]

\* l.blocked.LoadOrStore(ip, limiter) by goroutine p (limiter.go:288-289):
\* an entry that exists is handed back, otherwise p's limiter is stored.
\* Result: [pool, made, actual].
LoadOrStore(pool, mk, ip, p) ==
    IF ip \in DOMAIN pool
    THEN [pool |-> pool, made |-> mk, actual |-> mk[ip]]
    ELSE [pool |-> MapPut(pool, ip, NewLimiter), made |-> MapPut(mk, ip, p),
          actual |-> p]

\* What goroutine p reports when its call returns.
Return(op, ip, out, nrec) ==
    [op |-> op, ip |-> ip, isBot |-> FALSE, status |-> "unknown",
     out |-> out, nrec |-> nrec]

\* A call for a non-bot has begun: Validate, then l.analyzer.Blocked(ip),
\* one atomic load of the snapshot.
Entered(op, ip) ==
    [InCall EXCEPT !.op = op,
                 !.ip = ip,
                 !.pc = IF Blocked(blocklist, ip) THEN "load" ELSE "record"]

\* Allow(ua, ip) for a non-bot (limiter.go:215-232).
callAllow(p, ip) ==
    /\ ~Panicked
    /\ p \in Callers
    /\ Pc(p) = "idle"
    /\ callers' = MapPut(callers, p, Entered("Allow", ip))
    /\ ret' = NoCall
    /\ UNCHANGED <<analyzerVars, blocked, made, admitted>>
    /\ UNCHANGED unit

\* Wait(ctx, ua, ip) for a non-bot (limiter.go:246-263).
callWait(p, ip) ==
    /\ ~Panicked
    /\ p \in Callers
    /\ Pc(p) = "idle"
    /\ callers' = MapPut(callers, p, Entered("Wait", ip))
    /\ ret' = NoCall
    /\ UNCHANGED <<analyzerVars, blocked, made, admitted>>
    /\ UNCHANGED unit

\* l.analyzer.Record(ip, ua); return true, or nil from Wait (limiter.go:
\* 238-239, 269-270).  The user agent of the call is drawn here, where it is
\* first used.
callerRecord(p) ==
    /\ ~Panicked
    /\ Pc(p) = "record"
    /\ \E ua \in Paths, seed \in Seeds :
          queue' = Record(queue, callers[p].ip, ua, seed)
    /\ callers' = MapDel(callers, p)
    /\ ret' = Return(callers[p].op, callers[p].ip,
                     IF callers[p].op = "Allow" THEN "true" ELSE "nil", 1)
    /\ UNCHANGED <<blocklist, bloom, counter, stop, worker, tick, history,
                   blocked, made, admitted>>
    /\ UNCHANGED unit

\* getLimiter: l.blocked.Load(ip) (limiter.go:284-286).
callerLoad(p) ==
    /\ ~Panicked
    /\ Pc(p) = "load"
    /\ callers' = [callers EXCEPT ![p] =
                     IF callers[p].ip \in DOMAIN blocked
                     THEN [@ EXCEPT !.pc = "take", !.via = "Load",
                                          !.lim = made[callers[p].ip]]
                     ELSE [@ EXCEPT !.pc = "store"]]
    /\ ret' = NoCall
    /\ UNCHANGED <<analyzerVars, blocked, made, admitted>>
    /\ UNCHANGED unit

\* getLimiter: rate.NewLimiter, l.blocked.LoadOrStore (limiter.go:287-290).
callerStore(p) ==
    /\ ~Panicked
    /\ Pc(p) = "store"
    /\ LET r == LoadOrStore(blocked, made, callers[p].ip, p)
       IN /\ blocked' = r.pool
          /\ made' = r.made
          /\ callers' = [callers EXCEPT ![p] =
                           [@ EXCEPT !.pc = "take", !.via = "LoadOrStore",
                                        !.lim = r.actual]]
    /\ ret' = NoCall
    /\ UNCHANGED <<analyzerVars, admitted>>
    /\ UNCHANGED unit

\* allowBlocked: limiter.Allow() on the limiter held (limiter.go:275).  A
\* limiter that Close deleted from the pool meanwhile still answers, from
\* its own tokens, which every goroutine holding it shares.
callerTake(p) ==
    /\ ~Panicked
    /\ Pc(p) = "take"
    /\ callers[p].op = "Allow"
    /\ LET ip == callers[p].ip
       IN IF callers[p].lim = "orphan"
          THEN LET ok == callers[p].tok > 0
               IN /\ ret' = Return("Allow", ip,
                                   IF ok THEN "true" ELSE "false", 0)
                  /\ admitted' = IF ok THEN admitted \cup {ip} ELSE admitted
                  /\ blocked' = blocked
                  /\ callers' = [q \in DOMAIN callers \ {p} |->
                                   IF /\ Orphan(q)
                                      /\ callers[q].orph = callers[p].orph
                                   THEN [callers[q] EXCEPT !.tok = 0]
                                   ELSE callers[q]]
          ELSE LET a == allowBlocked(blocked, ip)
               IN /\ ret' = Return("Allow", ip,
                                   IF a.ok THEN "true" ELSE "false", 0)
                  /\ admitted' = IF a.ok THEN admitted \cup {ip} ELSE admitted
                  /\ blocked' = a.pool
                  /\ callers' = MapDel(callers, p)
    /\ UNCHANGED <<analyzerVars, made>>
    /\ UNCHANGED unit

\* waitBlocked: limiter.Wait(ctx) on the limiter held (limiter.go:280).  A
\* context that is done gives its error; a token that is there is taken;
\* otherwise Wait returns an error (the deadline is too near, or the
\* context ends during the wait) or goes on waiting for the refill.
callerWait(p) ==
    /\ ~Panicked
    /\ Pc(p) = "take"
    /\ callers[p].op = "Wait"
    /\ \E ctx \in Contexts :
          LET ip == callers[p].ip
              orphan == callers[p].lim = "orphan"
              t == IF orphan THEN callers[p].tok ELSE blocked[ip]
          IN IF ctx = "live" /\ t > 0
             THEN /\ ret' = Return("Wait", ip, "nil", 0)
                  /\ admitted' = admitted \cup {ip}
                  /\ blocked' = IF orphan THEN blocked
                                ELSE MapPut(blocked, ip, t - 1)
                  /\ callers' = [q \in DOMAIN callers \ {p} |->
                                   IF /\ orphan
                                      /\ Orphan(q)
                                      /\ callers[q].orph = callers[p].orph
                                   THEN [callers[q] EXCEPT !.tok = 0]
                                   ELSE callers[q]]
             ELSE /\ \E e \in (IF ctx # "live"
                               THEN {CtxErr(ctx)}
                               ELSE {"context.Canceled",
                                     "context.DeadlineExceeded",
                                     "rate: would exceed context deadline"}) :
                        ret' = Return("Wait", ip, e, 0)
                  /\ admitted' = admitted
                  /\ blocked' = blocked
                  /\ callers' = MapDel(callers, p)
    /\ UNCHANGED <<analyzerVars, made>>
    /\ UNCHANGED unit

\* Limiter.Close is called.
callClose(p) ==
    /\ ~Panicked
    /\ p \in Closers
    /\ Pc(p) = "idle"
    /\ callers' = MapPut(callers, p, [InCall EXCEPT !.pc = "select"])
    /\ ret' = NoCall
    /\ UNCHANGED <<analyzerVars, blocked, made, admitted>>
    /\ UNCHANGED unit

\* Analyzer.Close returned: l.blocked.Range begins (limiter.go:296) with the
\* keys the pool holds now.
RangeStart(c) == [c EXCEPT !.pc = "range", !.todo = DOMAIN blocked, !.done = {}]

\* Analyzer.Close: the select (analyzer.go:81-84): stop is closed, return;
\* otherwise the default case is taken.
closeSelect(p) ==
    /\ ~Panicked
    /\ Pc(p) = "select"
    /\ callers' = [callers EXCEPT ![p] =
                     IF stop THEN RangeStart(@) ELSE [@ EXCEPT !.pc = "close"]]
    /\ ret' = NoCall
    /\ UNCHANGED <<analyzerVars, blocked, made, admitted>>
    /\ UNCHANGED unit

\* Analyzer.Close: close(a.stop) (analyzer.go:85).  Closing a closed channel
\* panics.
closeStop(p) ==
    /\ ~Panicked
    /\ Pc(p) = "close"
    /\ IF stop
       THEN /\ callers' = [callers EXCEPT ![p] = [@ EXCEPT !.pc = "panic"]]
            /\ stop' = stop
       ELSE /\ callers' = [callers EXCEPT ![p] = RangeStart(@)]
            /\ stop' = TRUE
    /\ ret' = NoCall
    /\ UNCHANGED <<queue, blocklist, bloom, counter, worker, tick, history,
                   blocked, made, admitted>>
    /\ UNCHANGED unit

\* Limiter.Close: Range calls l.blocked.Delete(key) for a key not visited
\* yet (limiter.go:296-299): one the pool held when Range began, or one
\* stored since.  Who holds the deleted limiter holds an orphan from now on.
rangeVisit(p) ==
    /\ ~Panicked
    /\ Pc(p) = "range"
    /\ \E k \in (callers[p].todo \cup DOMAIN blocked) \ callers[p].done :
          LET holders == {q \in Procs : /\ Pc(q) = "take"
                                        /\ callers[q].ip = k
                                        /\ callers[q].lim \in Procs}
          IN /\ blocked' = MapDel(blocked, k)
             /\ made' = MapDel(made, k)
             /\ callers' = [q \in DOMAIN callers |->
                              IF q = p
                              THEN [callers[q] EXCEPT !.done = @ \cup {k}]
                              ELSE IF q \in holders
                              THEN [callers[q] EXCEPT
                                      !.lim = "orphan",
                                      !.orph = holders,
                                      !.tok = IF k \in DOMAIN blocked
                                              THEN blocked[k] ELSE 0]
                              ELSE callers[q]]
    /\ ret' = NoCall
    /\ UNCHANGED <<analyzerVars, admitted>>
    /\ UNCHANGED unit

\* Limiter.Close returns once Range has visited every key it began with.
rangeReturn(p) ==
    /\ ~Panicked
    /\ Pc(p) = "range"
    /\ callers[p].todo \subseteq callers[p].done
    /\ callers' = MapDel(callers, p)
    /\ ret' = Return("Close", "", "", 0)
    /\ UNCHANGED <<analyzerVars, blocked, made, admitted>>
    /\ UNCHANGED unit

\* A refill interval passes for the limiters of ip (rate.Limiter computes
\* its tokens from the time elapsed): the pool's entry and the orphans held
\* have their token again.
elapse(ip) ==
    /\ ~Panicked
    /\ \/ ip \in DOMAIN blocked /\ blocked[ip] < NewLimiter
       \/ \E q \in Procs : /\ Orphan(q)
                           /\ callers[q].ip = ip
                           /\ callers[q].tok < NewLimiter
    /\ blocked' = IF ip \in DOMAIN blocked
                  THEN MapPut(blocked, ip, NewLimiter) ELSE blocked
    /\ callers' = [q \in DOMAIN callers |->
                     IF Orphan(q) /\ callers[q].ip = ip
                     THEN [callers[q] EXCEPT !.tok = NewLimiter]
                     ELSE callers[q]]
    /\ admitted' = admitted \ {ip}
    /\ ret' = NoCall
    /\ UNCHANGED <<analyzerVars, made>>
    /\ UNCHANGED unit

NextConc ==
    \/ \E p \in Procs, ip \in IPs : callAllow(p, ip)
    \/ \E p \in Procs, ip \in IPs : callWait(p, ip)
    \/ \E p \in Procs : callerRecord(p)
    \/ \E p \in Procs : callerLoad(p)
    \/ \E p \in Procs : callerStore(p)
    \/ \E p \in Procs : callerTake(p)
    \/ \E p \in Procs : callerWait(p)
    \/ \E p \in Procs : callClose(p)
    \/ \E p \in Procs : closeSelect(p)
    \/ \E p \in Procs : closeStop(p)
    \/ \E p \in Procs : rangeVisit(p)
    \/ \E p \in Procs : rangeReturn(p)
    \/ \E ip \in IPs : elapse(ip)

SpecConc == InitConc /\ [][NextConc]_vars

\* ------------------------------- publication of the blocklist, step by step
\* Analyzer.block, run by the worker, and Analyzer.Blocked, run by any number
\* of readers, each access to shared memory a step of its own.  maps is the
\* heap of map objects; ptr is the atomic pointer.  What makes the worker
\* call block (the analysis) is left open: it may call it for any client.

\* The goroutines that call Blocked.
Readers == {"r1", "r2"}

\* The key under which the worker's position inside block is kept.
WorkerId == "worker"

\* Mutant: no map is made, the new map is the old one.
MakeMapAlias(heap, old) == [maps |-> heap, new |-> old]

\* make(map[string]struct{}, len(old)+1) (analyzer.go:129): a fresh, empty
\* map object.  Result: [maps, new], the heap and the new map's identity.
MakeMap(heap, old) ==
    LET id == Cardinality(DOMAIN heap) + 1
    IN [maps |-> MapPut(heap, id, {}), new |-> id]

\* Mutant: the assignment leaves k as the map's only key.
MapSetAlone(heap, id, k) == [heap EXCEPT ![id] = {k}]

\* new[k] = struct{}{} (analyzer.go:131, 133) on the map with identity id.
MapSet(heap, id, k) == [heap EXCEPT ![id] = @ \cup {k}]

\* Blocked: bl := *a.blocklist.Load() (analyzer.go:75), one atomic load.
blockedLoad(r, ip) ==
    /\ r \in Readers
    /\ r \notin DOMAIN callers
    /\ callers' = MapPut(callers, r,
                         [pc |-> "lookup", op |-> "Blocked", ip |-> ip,
                          bl |-> ptr])
    /\ ret' = NoCall
    /\ UNCHANGED <<analyzerVars, blocked, made, admitted, unit>>

\* Blocked: _, exists := bl[ip]; return exists (analyzer.go:76-77).
blockedLookup(r) ==
    /\ r \in Readers
    /\ Pc(r) = "lookup"
    /\ ret' = [op |-> "Blocked", ip |-> callers[r].ip,
               out |-> IF callers[r].ip \in maps[callers[r].bl]
                       THEN "true" ELSE "false",
               ver |-> callers[r].bl]
    /\ callers' = MapDel(callers, r)
    /\ UNCHANGED <<analyzerVars, blocked, made, admitted, unit>>

\* block: old := *a.blocklist.Load() (analyzer.go:123).
blockLoad(ip) ==
    /\ worker = "running"
    /\ WorkerId \notin DOMAIN callers
    /\ callers' = MapPut(callers, WorkerId,
                         [pc |-> "exists", op |-> "block", ip |-> ip,
                          old |-> ptr, new |-> 0, todo |-> {}])
    /\ ret' = NoCall
    /\ UNCHANGED <<analyzerVars, blocked, made, admitted, unit>>

\* block: return if ip is in old, else make the new map (analyzer.go:
\* 125-129); the range statement will go through the keys of old.
blockExists ==
    /\ Pc(WorkerId) = "exists"
    /\ LET w == callers[WorkerId]
           m == MakeMap(maps, w.old)
       IN IF w.ip \in maps[w.old]
          THEN /\ callers' = MapDel(callers, WorkerId)
               /\ maps' = maps
          ELSE /\ callers' = [callers EXCEPT ![WorkerId] =
                                [@ EXCEPT !.pc = "copy", !.new = m.new,
                                          !.todo = maps[w.old]]]
               /\ maps' = m.maps
    /\ ret' = NoCall
    /\ UNCHANGED <<analyzerVars, blocked, made, admitted>>
    /\ UNCHANGED <<kb, ptr, snap, visits, recency, added, enq, proc, last,
                   poolVars>>

\* block: one round of the loop, new[k] = struct{}{} (analyzer.go:130-132).
blockCopy ==
    /\ Pc(WorkerId) = "copy"
    /\ \E k \in callers[WorkerId].todo :
          /\ maps' = MapSet(maps, callers[WorkerId].new, k)
          /\ callers' = [callers EXCEPT ![WorkerId] =
                           [@ EXCEPT !.todo = @ \ {k}]]
    /\ ret' = NoCall
    /\ UNCHANGED <<analyzerVars, blocked, made, admitted>>
    /\ UNCHANGED <<kb, ptr, snap, visits, recency, added, enq, proc, last,
                   poolVars>>

\* block: the loop is over, new[ip] = struct{}{} (analyzer.go:133).
blockAdd ==
    /\ Pc(WorkerId) = "copy"
    /\ callers[WorkerId].todo = {}
    /\ maps' = MapSet(maps, callers[WorkerId].new, callers[WorkerId].ip)
    /\ callers' = [callers EXCEPT ![WorkerId] = [@ EXCEPT !.pc = "store"]]
    /\ ret' = NoCall
    /\ UNCHANGED <<analyzerVars, blocked, made, admitted>>
    /\ UNCHANGED <<kb, ptr, snap, visits, recency, added, enq, proc, last,
                   poolVars>>

\* block: a.blocklist.Store(&new) (analyzer.go:135), one atomic store.  The
\* history records what the map holds at this moment.
blockStore ==
    /\ Pc(WorkerId) = "store"
    /\ ptr' = callers[WorkerId].new
    /\ snap' = MapPut(snap, callers[WorkerId].new, maps[callers[WorkerId].new])
    /\ blocklist' = maps[callers[WorkerId].new]
    /\ callers' = MapDel(callers, WorkerId)
    /\ ret' = NoCall
    /\ UNCHANGED <<queue, bloom, counter, stop, worker, tick, history>>
    /\ UNCHANGED <<blocked, made, admitted>>
    /\ UNCHANGED <<kb, maps, visits, recency, added, enq, proc, last,
                   poolVars>>

NextPublish ==
    \/ \E r \in Readers, ip \in IPs : blockedLoad(r, ip)
    \/ \E r \in Readers : blockedLookup(r)
    \/ \E ip \in IPs : blockLoad(ip)
    \/ blockExists
    \/ blockCopy
    \/ blockAdd
    \/ blockStore

SpecPublish == Init /\ [][NextPublish]_vars

\* --------------------------------------------- the visit counter on its own
\* Counter.Visit, Counter.Count and Counter.Clear called on one Counter, as
\* the tests of the package do, with the history of the calls.

\* Values of c.maxSize (the tests set 0, 3, 5, 100 and 10000), scaled down.
MaxSizes == 0 .. 2

\* Visit calls made for one client between two Clear calls.
MaxVisits == 3

\* A count two visits short of the largest uint16.
NearWrap == Uint16 - 3

\* A Counter of maxSize m on which ip was visited n >= 1 times and no other
\* client was.
Visited(m, ip, n) ==
    [maxSize |-> m, data |-> MapPut(EmptyMap, ip, n % Uint16), lru |-> <<ip>>,
     index |-> {ip}]

\* NewCounter, then c.maxSize = m; or such a counter, of maxSize 1 or more,
\* after NearWrap visits of one client.
InitCounter ==
    /\ queue = << >>
    /\ blocklist = {}
    /\ bloom = NewDoubleBufferBloom
    /\ stop = FALSE
    /\ worker = "running"
    /\ tick = FALSE
    /\ blocked = EmptyMap
    /\ pages = [ip \in IPs |-> {}]
    /\ fpos = {}
    /\ evicted = {}
    /\ ret = NoCall
    /\ callers = EmptyMap
    /\ made = EmptyMap
    /\ admitted = {}
    /\ kb = "ready"
    /\ maps = [id \in {1} |-> {}]
    /\ ptr = 1
    /\ snap = [id \in {1} |-> {}]
    /\ added = {}
    /\ enq = << >>
    /\ proc = << >>
    /\ objs = EmptyMap
    /\ free = {}
    /\ taken = NoReq
    /\ recording = EmptyMap
    /\ \E m \in MaxSizes :
          \/ /\ counter = [NewCounter EXCEPT !.maxSize = m]
             /\ visits = [ip \in Clients |-> 0]
             /\ recency = << >>
             /\ last = [ip \in Clients |-> 0]
          \/ /\ m >= 1
             /\ counter = Visited(m, "ip1", NearWrap)
             /\ visits = [ip \in Clients |-> IF ip = "ip1" THEN NearWrap ELSE 0]
             /\ recency = <<"ip1">>
             /\ last = [ip \in Clients |-> IF ip = "ip1" THEN NearWrap ELSE 0]

\* What the counter models leave alone.
counterFrame ==
    <<queue, blocklist, bloom, stop, worker, tick, blocked, pages, fpos,
      callers, made, admitted, kb, maps, ptr, snap, added, enq, proc,
      poolVars>>

\* c.Visit(ip).
counterVisit(ip) ==
    /\ \/ visits[ip] < MaxVisits
       \/ visits[ip] >= NearWrap /\ visits[ip] < NearWrap + MaxVisits
    /\ LET v == Visit(counter, ip)
       IN /\ counter' = v.counter
          /\ ret' = [op |-> "Visit", ip |-> ip, out |-> v.count]
          /\ evicted' = evicted \cup
                          ((DOMAIN counter.data) \ (DOMAIN v.counter.data))
    /\ visits' = [visits EXCEPT ![ip] = @ + 1]
    /\ recency' = MoveToFront(recency, ip)
    /\ last' = [last EXCEPT ![ip] = Visit(counter, ip).count]
    /\ UNCHANGED counterFrame

\* c.Count(ip).
counterCount(ip) ==
    /\ LET r == CountCall(counter, ip)
       IN /\ counter' = r.counter
          /\ ret' = [op |-> "Count", ip |-> ip, out |-> r.count]
    /\ UNCHANGED <<visits, recency, last, evicted, counterFrame>>

\* c.Clear(); the record of the call keeps the clients it dropped.
counterClear ==
    /\ counter' = Clear(counter)
    /\ ret' = [op |-> "Clear", ip |-> "", out |-> 0,
               dropped |-> DOMAIN counter.data]
    /\ visits' = [ip \in Clients |-> 0]
    /\ recency' = << >>
    /\ last' = [ip \in Clients |-> 0]
    /\ evicted' = {}
    /\ UNCHANGED counterFrame

NextCounter ==
    \/ \E ip \in Clients : counterVisit(ip)
    \/ \E ip \in Clients : counterCount(ip)
    \/ counterClear

SpecCounter == InitCounter /\ [][NextCounter]_vars

\* --------------------------------------------- the dedup filter on its own
\* DoubleBufferBloom.TestAndAdd and DoubleBufferBloom.Rotate called on one
\* filter, as the tests of the package do, with the keys of the generation.

\* Keys handed to TestAndAdd: more keys than the filter has bits, so that two
\* of them share their position.
BloomKeys == {u64ToBytes(v) : v \in 0 .. 3}

\* The positions the keys in ks set.
LocationsOf(ks) == UNION {BloomLocations(k) : k \in ks}

\* What the filter models leave alone.
bloomFrame ==
    <<queue, blocklist, counter, stop, worker, tick, blocked, history,
      callers, made, admitted, kb, maps, ptr, snap, visits, recency, enq,
      proc, last, poolVars>>

\* dbf.TestAndAdd(key).  first: the key was not applied in this generation
\* before.
bloomTestAndAdd(key) ==
    /\ LET t == TestAndAdd(bloom, key)
       IN /\ bloom' = t.bloom
          /\ ret' = [op |-> "TestAndAdd", key |-> key,
                     out |-> IF t.seen THEN "true" ELSE "false",
                     first |-> key \notin added]
    /\ added' = added \cup {key}
    /\ UNCHANGED bloomFrame

\* dbf.Rotate().
bloomRotate ==
    /\ bloom' = Rotate(bloom)
    /\ ret' = [op |-> "Rotate", key |-> << >>, out |-> "", first |-> FALSE]
    /\ added' = {}
    /\ UNCHANGED bloomFrame

NextBloom ==
    \/ \E key \in BloomKeys : bloomTestAndAdd(key)
    \/ bloomRotate

SpecBloom == Init /\ [][NextBloom]_vars

\* ----------------------------------------------------------- construction
\* botrate.New with the default classifier (no WithKnownbots option):
\* knownbots.New() succeeds or returns an error.  The three versions of New
\* differ in what they do with the error.  Result: [out, kb], what the
\* caller gets ("limiter", "error", or "panic": the process is aborted) and
\* the classifier of the Limiter built, "none" if none was built.

\* New, first definition (limiter.go:36-65): panic(err).
NewFirstResult(err) ==
    IF err THEN [out |-> "panic", kb |-> "none"]
    ELSE [out |-> "limiter", kb |-> "ready"]

\* New, second definition (limiter.go:182-209): kb, _ := knownbots.New(); the
\* error is dropped and the nil validator installed.
NewResult(err) ==
    IF err THEN [out |-> "limiter", kb |-> "nil"]
    ELSE [out |-> "limiter", kb |-> "ready"]

\* New as src/go.mod holds it (go.mod:64-93): return nil, err.
NewReasonResult(err) ==
    IF err THEN [out |-> "error", kb |-> "none"]
    ELSE [out |-> "limiter", kb |-> "ready"]

\* Before New is called: no Limiter, no analyzer, no worker.
InitNew ==
    /\ queue = << >>
    /\ blocklist = {}
    /\ bloom = NewDoubleBufferBloom
    /\ counter = NewCounter
    /\ stop = FALSE
    /\ worker = "none"
    /\ tick = FALSE
    /\ blocked = EmptyMap
    /\ pages = [ip \in IPs |-> {}]
    /\ fpos = {}
    /\ evicted = {}
    /\ ret = NoCall
    /\ callers = EmptyMap
    /\ made = EmptyMap
    /\ admitted = {}
    /\ kb = "none"
    /\ maps = [id \in {1} |-> {}]
    /\ ptr = 1
    /\ snap = [id \in {1} |-> {}]
    /\ visits = EmptyMap
    /\ recency = << >>
    /\ added = {}
    /\ enq = << >>
    /\ proc = << >>
    /\ objs = EmptyMap
    /\ free = {}
    /\ taken = NoReq
    /\ recording = EmptyMap
    /\ last = [ip \in Clients |-> 0]

\* A panic has aborted the process.
Crashed == ret.out = "panic"

\* A call of New with result r, knownbots.New() having failed or not: a
\* Limiter that is built comes with its analyzer, whose worker is started.
Constructed(r, err) ==
    /\ kb = "none"
    /\ kb' = r.kb
    /\ worker' = IF r.out = "limiter" THEN "running" ELSE worker
    /\ ret' = [op |-> "New", ip |-> "", isBot |-> FALSE,
               status |-> IF err THEN "init failed" ELSE "init ok",
               out |-> r.out, nrec |-> 0]
    /\ UNCHANGED <<queue, blocklist, bloom, counter, stop, tick, blocked,
                   history, conc>>
    /\ UNCHANGED <<maps, ptr, snap, visits, recency, added, enq, proc, last,
                   poolVars>>

NewFirst ==
    /\ ~Crashed
    /\ \E err \in BOOLEAN : Constructed(NewFirstResult(err), err)

New ==
    /\ ~Crashed
    /\ \E err \in BOOLEAN : Constructed(NewResult(err), err)

NewReason ==
    /\ ~Crashed
    /\ \E err \in BOOLEAN : Constructed(NewReasonResult(err), err)

\* Allow or Wait on the Limiter built: l.kb.Validate(ua, ip) is the first
\* statement of both (limiter.go:215, 246); on the nil validator it
\* dereferences a nil pointer.
builtCall(ua, ip) ==
    /\ ~Crashed
    /\ \/ kb = "ready" /\ (Allow(ua, ip) \/ Wait(ua, ip))
       \/ /\ kb = "nil"
          /\ \E op \in {"Allow", "Wait"} :
                ret' = [op |-> op, ip |-> ip, isBot |-> FALSE, status |-> "",
                        out |-> "panic", nrec |-> 0]
          /\ UNCHANGED <<analyzerVars, blocked, conc, unit>>

\* The worker of the Limiter built.
builtAnalyze ==
    /\ ~Crashed
    /\ workerAnalyze

NextNew ==
    \/ NewFirst
    \/ New
    \/ NewReason
    \/ \E ua \in UserAgents, ip \in IPs : builtCall(ua, ip)
    \/ builtAnalyze

SpecNew == InitNew /\ [][NextNew]_vars

\* ---------------------------------------------- the order of processing
\* Analyzer.Record, Analyzer.Close and the worker on a queue that holds more
\* than one request, with the history of what the queue accepted (enq) and
\* of what the worker analyzed (proc).  Requests that wait when the worker
\* returns stay in the queue and are never analyzed.

\* Config.QueueCap of this model: two requests can wait together.
OrderCap == 2

\* Requests accepted over a run.
MaxObs == 3

\* Mutant: the request is put at the front of the queue.
RecordCapFront(q, cap, ip, path, seed) ==
    LET req == [IP |-> ip, Path |-> hashStr(seed, path)]
    IN IF Len(q) < cap THEN <<req>> \o q ELSE q

\* Analyzer.Record on a queue made with capacity cap (analyzer.go:43,
\* 62-72): the send puts the request behind those that wait, or drops it.
RecordCap(q, cap, ip, path, seed) ==
    LET req == [IP |-> ip, Path |-> hashStr(seed, path)]
    IN IF Len(q) < cap THEN Append(q, req) ELSE q

\* a.Record(ip, path): the history keeps the request if the queue took it.
orderRecord(ip, path) ==
    /\ Len(enq) < MaxObs
    /\ \E seed \in Seeds :
          LET q == RecordCap(queue, OrderCap, ip, path, seed)
          IN /\ queue' = q
             /\ enq' = IF Len(q) > Len(queue)
                       THEN Append(enq, [IP |-> ip, Path |-> hashStr(seed, path)])
                       ELSE enq
    /\ ret' = NoCall
    /\ UNCHANGED <<blocklist, bloom, counter, stop, worker, tick, blocked,
                   history, conc>>
    /\ UNCHANGED <<kb, maps, ptr, snap, visits, recency, added, proc, last,
                   poolVars>>

\* Analyzer.worker, case req := <-a.queue (analyzer.go:97-99): the request
\* at the head is received and analyzed; the history keeps it.
orderAnalyze ==
    /\ worker = "running"
    /\ Len(queue) > 0
    /\ \E seed \in Seeds :
          LET a == analyze(bloom, counter, blocklist, Head(queue), seed)
          IN /\ bloom' = a.bloom
             /\ counter' = a.counter
             /\ blocklist' = a.blocklist
    /\ queue' = Tail(queue)
    /\ proc' = Append(proc, Head(queue))
    /\ ret' = NoCall
    /\ UNCHANGED <<stop, worker, tick, blocked, history, conc>>
    /\ UNCHANGED <<kb, maps, ptr, snap, visits, recency, added, enq, last,
                   poolVars>>

\* Analyzer.worker, case <-ticker.C (analyzer.go:100-101).
orderRotate ==
    /\ workerRotateStep
    /\ UNCHANGED history

NextOrder ==
    \/ \E ip \in IPs, path \in Paths : orderRecord(ip, path)
    \/ orderAnalyze
    \/ Tick
    \/ orderRotate
    \/ AnalyzerCloseCall
    \/ workerStop

SpecOrder == Init /\ [][NextOrder]_vars

\* ------------------------------------------------------ the request pool
\* Analyzer.Record and the worker, each statement that touches a Request
\* object, the pool or the queue a step of its own, so that Record calls of
\* several goroutines interleave with each other and with the worker.  The
\* queue holds the identities of Request objects (the channel carries
\* pointers); enq and proc keep the fields the objects had when the queue
\* accepted them and when the worker analyzed them.

\* Goroutines that call Analyzer.Record.
Recorders == {"g1", "g2"}

\* Request objects the pool's New function makes over a run.
MaxObjs == 2

\* Record calls begin while the queue has accepted fewer requests than this.
PoolObs == 2

\* The page the Record calls of this model are made for: their requests
\* differ in the client and, by the seed of hashStr, in the digest.
PoolPaths == {"/a"}

\* &Request{}: the zero value.
NewRequest == [IP |-> "", Path |-> 0]

\* a.pool.Get() (analyzer.go:63): an object the pool holds, which leaves the
\* pool, or a new one made by the pool's New function (analyzer.go:47-51);
\* sync.Pool promises neither.  Result: the set of possible [id, free, objs].
PoolGet(fr, heap) ==
    {[id |-> id, free |-> fr \ {id}, objs |-> heap] : id \in fr}
    \cup
    {[id |-> Cardinality(DOMAIN heap) + 1, free |-> fr,
      objs |-> MapPut(heap, Cardinality(DOMAIN heap) + 1, NewRequest)]}

\* Mutant: the request is put back into the pool whether it was sent or not.
RecordSendPuts(q, fr, id, cap) ==
    IF Len(q) < cap
    THEN [queue |-> Append(q, id), free |-> fr \cup {id}, sent |-> TRUE]
    ELSE [queue |-> q, free |-> fr \cup {id}, sent |-> FALSE]

\* The select of Analyzer.Record (analyzer.go:67-71): the pointer is sent,
\* or, the queue being full, put back into the pool.
RecordSend(q, fr, id, cap) ==
    IF Len(q) < cap
    THEN [queue |-> Append(q, id), free |-> fr, sent |-> TRUE]
    ELSE [queue |-> q, free |-> fr \cup {id}, sent |-> FALSE]

poolFrame ==
    <<stop, worker, tick, blocked, history, conc, kb, maps, ptr, snap,
      visits, recency, added, last>>

\* g enters a.Record(ip, path): req := a.pool.Get().(*Request).
recordGet(g, ip, path) ==
    /\ g \notin DOMAIN recording
    /\ Len(enq) < PoolObs
    /\ \E r \in PoolGet(free, objs) :
          /\ r.id <= MaxObjs
          /\ free' = r.free
          /\ objs' = r.objs
          /\ recording' = MapPut(recording, g,
                                 [pc |-> "fill", id |-> r.id, ip |-> ip,
                                  path |-> path])
    /\ ret' = NoCall
    /\ UNCHANGED <<queue, blocklist, bloom, counter, taken, enq, proc,
                   poolFrame>>

\* req.IP = ip; req.Path = hashStr(path).
recordFill(g) ==
    /\ g \in DOMAIN recording
    /\ recording[g].pc = "fill"
    /\ \E seed \in Seeds :
          objs' = [objs EXCEPT ![recording[g].id] =
                      [IP |-> recording[g].ip,
                       Path |-> hashStr(seed, recording[g].path)]]
    /\ recording' = [recording EXCEPT ![g].pc = "send"]
    /\ ret' = NoCall
    /\ UNCHANGED <<queue, blocklist, bloom, counter, free, taken, enq, proc,
                   poolFrame>>

\* select { case a.queue <- req: default: a.pool.Put(req) }, and return.
recordSend(g) ==
    /\ g \in DOMAIN recording
    /\ recording[g].pc = "send"
    /\ LET r == RecordSend(queue, free, recording[g].id, OrderCap)
       IN /\ queue' = r.queue
          /\ free' = r.free
          /\ enq' = IF r.sent THEN Append(enq, objs[recording[g].id]) ELSE enq
    /\ recording' = MapDel(recording, g)
    /\ ret' = NoCall
    /\ UNCHANGED <<blocklist, bloom, counter, objs, taken, proc, poolFrame>>

\* Analyzer.worker, case req := <-a.queue (analyzer.go:97).
poolReceive ==
    /\ worker = "running"
    /\ taken = NoReq
    /\ Len(queue) > 0
    /\ taken' = [id |-> Head(queue), analyzed |-> FALSE]
    /\ queue' = Tail(queue)
    /\ ret' = NoCall
    /\ UNCHANGED <<blocklist, bloom, counter, objs, free, recording, enq, proc,
                   poolFrame>>

\* a.analyze(req) (analyzer.go:98), on the fields the object has now.
poolAnalyze ==
    /\ taken # NoReq
    /\ ~taken.analyzed
    /\ \E seed \in Seeds :
          LET a == analyze(bloom, counter, blocklist, objs[taken.id], seed)
          IN /\ bloom' = a.bloom
             /\ counter' = a.counter
             /\ blocklist' = a.blocklist
    /\ proc' = Append(proc, objs[taken.id])
    /\ taken' = [taken EXCEPT !.analyzed = TRUE]
    /\ ret' = NoCall
    /\ UNCHANGED <<queue, objs, free, recording, enq, poolFrame>>

\* a.pool.Put(req) (analyzer.go:99), and back to the select.
poolPut ==
    /\ taken # NoReq
    /\ taken.analyzed
    /\ free' = free \cup {taken.id}
    /\ taken' = NoReq
    /\ ret' = NoCall
    /\ UNCHANGED <<queue, blocklist, bloom, counter, objs, recording, enq,
                   proc, poolFrame>>

\* The pool lets go of an object it holds (sync.Pool may do so at any time).
poolRelease ==
    /\ \E id \in free : free' = free \ {id}
    /\ ret' = NoCall
    /\ UNCHANGED <<queue, blocklist, bloom, counter, objs, taken, recording,
                   enq, proc, poolFrame>>

\* Analyzer.worker at its select, case <-ticker.C.
poolRotate ==
    /\ taken = NoReq
    /\ workerRotateStep
    /\ UNCHANGED history

NextPool ==
    \/ \E g \in Recorders, ip \in IPs, path \in PoolPaths :
          recordGet(g, ip, path)
    \/ \E g \in Recorders : recordFill(g)
    \/ \E g \in Recorders : recordSend(g)
    \/ poolReceive
    \/ poolAnalyze
    \/ poolPut
    \/ poolRelease
    \/ Tick
    \/ poolRotate

SpecPool == Init /\ [][NextPool]_vars

\* ------------------------------------------------------------- properties
BotCall(r, ops, statuses) ==
    r.op \in ops /\ r.isBot /\ r.status \in statuses

UserCall(r, ops) == r.op \in ops /\ ~r.isBot

\* The bucket the pool holds for ip, or the full bucket a first use creates,
\* has a token.
TokenAt(pool, ip) == ip \notin DOMAIN pool \/ pool[ip] > 0

\* C1: a call of Allow for which the classifier reports a verified bot
\* returns true, calls Record not once, and leaves the observation queue, the
\* blocklist and the limiter pool as they were.
C1_VerifiedAllowed ==
    [][BotCall(ret', {"Allow"}, {"verified"})
         => /\ ret'.out = "true"
            /\ ret'.nrec = 0
            /\ queue' = queue
            /\ blocklist' = blocklist
            /\ blocked' = blocked]_vars

\* A verified bot was let through from an ip that is on the blocklist and
\* whose bucket is empty.
C1_Witness ==
    /\ BotCall(ret, {"Allow"}, {"verified"})
    /\ ret.out = "true"
    /\ ret.ip \in blocklist
    /\ ret.ip \in DOMAIN blocked
    /\ blocked[ret.ip] = 0

\* C2: a call of Allow for which the classifier reports a bot with status
\* failed or unknown returns false, whatever the tokens, the blocklist and
\* the earlier requests.
C2_FakeBotDenied ==
    BotCall(ret, {"Allow"}, {"failed", "unknown"}) => ret.out = "false"

\* C3: a call of Allow or Wait for which the classifier reports a bot with
\* status failed or unknown leaves the limiter pool and the queue as they
\* were.
C3_FakeBotNoEffect ==
    [][BotCall(ret', {"Allow", "Wait"}, {"failed", "unknown"})
         => blocked' = blocked /\ queue' = queue]_vars

\* C4: a call for which the classifier reports a bot with status pending is
\* let through (Allow returns true, Wait returns nil) and neither records an
\* observation nor touches a limiter.
C4_PendingAllowed ==
    [][BotCall(ret', {"Allow", "Wait"}, {"pending"})
         => /\ ret'.out = (IF ret'.op = "Allow" THEN "true" ELSE "nil")
            /\ ret'.nrec = 0
            /\ queue' = queue
            /\ blocked' = blocked]_vars

\* What one call of Record for ip does to the queue: one request of ip is
\* appended, or the queue was full and stays as it was.
Recorded(q, qNew, ip) ==
    IF Len(q) < QueueCap
    THEN /\ Len(qNew) = Len(q) + 1
         /\ SubSeq(qNew, 1, Len(q)) = q
         /\ qNew[Len(qNew)].IP = ip
    ELSE qNew = q

\* C5: a call of Allow for a non-bot whose ip is not on the blocklist returns
\* true and calls Record exactly once, also when the queue is full and the
\* observation is dropped; a call of Allow for a bot or for an ip on the
\* blocklist calls Record not once and leaves the queue as it was.
C5_RecordOnce ==
    [][ret'.op = "Allow"
         => IF ~ret'.isBot /\ ret'.ip \notin blocklist
            THEN /\ ret'.out = "true"
                 /\ ret'.nrec = 1
                 /\ Recorded(queue, queue', ret'.ip)
            ELSE ret'.nrec = 0 /\ queue' = queue]_vars

\* A non-bot that is not blocked was let through although the queue was full
\* with a request of the other ip (its own observation was dropped).
C5_Witness ==
    /\ UserCall(ret, {"Allow"})
    /\ ret.ip \notin blocklist
    /\ ret.out = "true"
    /\ Len(queue) = QueueCap
    /\ \A i \in 1 .. Len(queue) : queue[i].IP # ret.ip

\* C6: a call of Allow for a non-bot whose ip is on the blocklist returns
\* true exactly if the ip's bucket has a token at that moment, and the token
\* is then taken; otherwise it returns false; either way no observation is
\* recorded.
C6_BlockedTokenGate ==
    [][(UserCall(ret', {"Allow"}) /\ ret'.ip \in blocklist)
         => /\ ret'.out = (IF TokenAt(blocked, ret'.ip) THEN "true" ELSE "false")
            /\ ret'.ip \in DOMAIN blocked'
            /\ blocked'[ret'.ip] = 0
            /\ \A ip \in (DOMAIN blocked) \ {ret'.ip} :
                  ip \in DOMAIN blocked' /\ blocked'[ip] = blocked[ip]
            /\ ret'.nrec = 0
            /\ queue' = queue]_vars

\* A blocked non-bot was refused because its bucket was empty, while the
\* other ip's bucket held a token.
C6_Witness ==
    /\ UserCall(ret, {"Allow"})
    /\ ret.ip \in blocklist
    /\ ret.out = "false"
    /\ \E ip \in DOMAIN blocked : ip # ret.ip /\ blocked[ip] = 1

\* C7: blocklist membership only grows: what Blocked reports true stays true
\* after every step (analyze, rotate, Record, Close, the worker's exit), and
\* a rotation leaves the blocklist as it was.
C7_BlocklistMonotonic ==
    [][/\ \A ip \in IPs : Blocked(blocklist, ip) => Blocked(blocklist', ip)
       /\ (tick /\ ~tick' /\ worker' = "running") => blocklist' = blocklist]_vars

\* Both ips are blocked (the second promotion kept the first), a rotation
\* has emptied the counting state since, and the analyzer is closed.
C7_Witness ==
    /\ blocklist = IPs
    /\ counter = NewCounter
    /\ bloom.current = {}
    /\ worker = "stopped"

\* The pages of ip the worker processed in the current generation.
Distinct(ip) == Cardinality(pages[ip])

\* C8 as claimed: once the worker has processed PageThreshold pairwise
\* distinct pages of a client within one generation (so none was dropped and
\* neither a rotation nor Close came first) and the filter swallowed none of
\* them, the client is blocked from then on or eventually becomes so.
C8_PromotionAsClaimed ==
    \A ip \in IPs :
        (Distinct(ip) >= PageThreshold /\ ip \notin fpos /\ ~stop)
            ~> Blocked(blocklist, ip)

\* The request at the head of the queue carries the page that completes
\* PageThreshold distinct pages of ip in this generation, none of which was
\* swallowed by the filter or lost to an eviction.
LastPagePending(ip) ==
    /\ Len(queue) > 0
    /\ Head(queue).IP = ip
    /\ PageOf(Head(queue).Path) \notin pages[ip]
    /\ Distinct(ip) + 1 >= PageThreshold
    /\ ip \notin fpos
    /\ ip \notin evicted

\* C8: if PageThreshold pairwise distinct pages of a client are accepted and
\* processed within one generation, the filter swallows none of them and the
\* client's counter entry is not evicted meanwhile, the client is blocked: it
\* is blocked as soon as the last of them is processed, and the last one is
\* eventually processed unless Close, a rotation or a false positive comes
\* first.
C8_Promotion ==
    /\ [](\A ip \in IPs :
            (Distinct(ip) >= PageThreshold /\ ip \notin fpos /\ ip \notin evicted)
                => Blocked(blocklist, ip))
    /\ \A ip \in IPs :
          LastPagePending(ip) ~>
              \/ Blocked(blocklist, ip)
              \/ stop
              \/ ip \in fpos
              \/ Distinct(ip) + 1 < PageThreshold

\* A client was promoted after PageThreshold distinct pages, none swallowed,
\* no eviction, while the other client had been counted and evicted.
C8_Witness ==
    \E ip \in IPs :
        /\ Blocked(blocklist, ip)
        /\ Distinct(ip) >= PageThreshold
        /\ ip \notin fpos
        /\ ip \notin evicted
        /\ Count(counter, ip) = PageThreshold
        /\ evicted # {}

\* C9: a client is put on the blocklist only when the worker has processed
\* at least PageThreshold pairwise distinct pages of that client within the
\* current generation.
C9_PromotionNeedsDistinctPages ==
    [][\A ip \in IPs :
          (~Blocked(blocklist, ip) /\ Blocked(blocklist', ip))
              => Cardinality(pages'[ip]) >= PageThreshold]_vars

\* C10: repeats of a (client, page) pair within a generation count once: a
\* client's visit count never exceeds the number of distinct pages of it the
\* worker processed in the generation, so a client with a single page is not
\* blocked when PageThreshold >= 2.
C10_DuplicatesCountOnce ==
    \A ip \in IPs : Count(counter, ip) <= Distinct(ip)

\* C11: Record never suspends the caller and never overfills the queue: in
\* every reachable state the queue holds at most QueueCap requests, a call of
\* Record on a full queue returns the queue as it is, a call on a queue with
\* room appends exactly its request, and a call that records (Allow of a
\* non-bot that is not blocked) can always be taken, whether the worker
\* runs or has stopped.
C11_RecordNeverBlocks ==
    /\ Len(queue) <= QueueCap
    /\ \A ip \in IPs, path \in Paths, seed \in Seeds :
          LET q == Record(queue, ip, path, seed)
          IN /\ Len(q) <= QueueCap
             /\ Len(queue) >= QueueCap => q = queue
             /\ Len(queue) < QueueCap
                   => q = Append(queue, [IP |-> ip, Path |-> hashStr(seed, path)])
    /\ \A ip \in IPs \ blocklist, ua \in Paths : ENABLED Allow(ua, ip)

\* A non-bot's call recorded once after the worker had stopped and the queue
\* was full with the other ip's request: its observation was dropped.
C11_Witness ==
    /\ UserCall(ret, {"Allow", "Wait"})
    /\ ret.nrec = 1
    /\ worker = "stopped"
    /\ Len(queue) = QueueCap
    /\ \A i \in 1 .. Len(queue) : queue[i].IP # ret.ip

\* C12: any number of Close calls, one after another or interleaved, all
\* complete without panic: no goroutine ever closes the stop channel when it
\* is closed already.
C12_CloseNeverPanics ==
    \A p \in Procs : Pc(p) # "panic"

\* C13: Close never makes a call of Allow (and the Record or limiter access
\* inside it) that is in flight fail: whatever Close calls run beside it, a
\* goroutine inside Allow is never cut off by a panic of the process.
C13_CloseHarmless ==
    \A p \in Procs :
        Pc(p) \in {"record", "load", "store", "take"} => ~Panicked

\* C14: a call of Wait for a non-bot on the blocklist ends in one of two
\* ways: it returns nil, having taken a token (in particular it returns nil
\* whenever it took the token that was there), or it returns the error of
\* the caller's context (Canceled or DeadlineExceeded) and nothing else.
C14_WaitBlockedOutcome ==
    [][(UserCall(ret', {"Wait"}) /\ ret'.ip \in blocklist)
         => /\ ret'.out \in {"nil", "context.Canceled",
                             "context.DeadlineExceeded"}
            /\ (TokenAt(blocked, ret'.ip) /\ blocked'[ret'.ip] = 0)
                  => ret'.out = "nil"]_vars

\* C15: whatever error Wait returns to a non-bot on the blocklist that is
\* not the cancellation of its context is the sentinel ErrLimit; a denial is
\* never reported as nil or as some other error.
C15_WaitDenialIsErrLimit ==
    (/\ UserCall(ret, {"Wait"})
     /\ ret.ip \in blocklist
     /\ ret.out \notin {"nil", "context.Canceled"}) => ret.out = ErrLimit

\* What a caller sees of an effect: whether the call let the request
\* through (okVal is the value that says so), the queue and the pool.
Seen(effects, okVal) ==
    {[ok |-> e.out = okVal, queue |-> e.queue, pool |-> e.pool,
      nrec |-> e.nrec] : e \in effects}

NoClose ==
    /\ ~stop
    /\ \A p \in Procs : Pc(p) \notin {"select", "close"}

\* C17: get-or-create of a limiter is race-safe, the first writer wins:
\* every caller that getLimiter has handed a limiter for a client holds the
\* one instance installed in the pool for that client (so any two callers
\* for the same client hold the same instance and draw from one bucket),
\* whether it came from Load or from LoadOrStore after a lost race; the
\* only limiters held that are not the installed one are those Close has
\* deleted from the pool, and there is none before Close is called.
C17_FirstWriterWins ==
    \A p \in Procs :
        Pc(p) = "take" =>
            /\ callers[p].lim \in Procs \cup {"orphan"}
            /\ callers[p].lim \in Procs =>
                  /\ callers[p].ip \in DOMAIN blocked
                  /\ callers[p].ip \in DOMAIN made
                  /\ callers[p].lim = made[callers[p].ip]
            /\ NoClose => callers[p].lim \in Procs

\* Two callers raced to create the limiter of one client: the loser's
\* LoadOrStore handed it the winner's instance, which the winner holds too.
C17_Witness ==
    \E p, q \in Procs :
        /\ p # q
        /\ Pc(p) = "take"
        /\ Pc(q) = "take"
        /\ callers[p].ip = callers[q].ip
        /\ callers[p].via = "LoadOrStore"
        /\ callers[q].via = "LoadOrStore"
        /\ callers[p].lim = p
        /\ callers[q].lim = p
        /\ NoClose

\* C18 as claimed: once a limiter entry exists, no operation of the Limiter,
\* Close included, removes it.
C18_NeverEvicted ==
    [][\A ip \in DOMAIN blocked : ip \in DOMAIN blocked']_vars

\* C18: limiter entries are removed by Close and by nothing else: in every
\* step that is not Close, every entry of the pool stays, and its tokens
\* change only by a refill or by the call that takes the token (Allow, Wait,
\* the worker's analysis and the rotation neither remove nor replace it);
\* so an Allow for a blocked non-bot whose entry has no token left is
\* denied.
C18_EvictedOnlyByClose ==
    [][\/ Close
       \/ \A ip \in DOMAIN blocked :
             /\ ip \in DOMAIN blocked'
             /\ \/ blocked'[ip] = blocked[ip]
                \/ Refill(ip)
                \/ /\ ret'.op \in {"Allow", "Wait"}
                   /\ ret'.ip = ip
                   /\ blocked'[ip] = blocked[ip] - 1
             /\ (/\ UserCall(ret', {"Allow"})
                 /\ ret'.ip = ip
                 /\ ip \in blocklist
                 /\ blocked[ip] = 0) => ret'.out = "false"]_vars

\* Before any Close, a blocked non-bot was denied by the entry an earlier
\* call had created and emptied, while the other client's entry is full.
C18_Witness ==
    /\ ~stop
    /\ UserCall(ret, {"Allow"})
    /\ ret.out = "false"
    /\ ret.ip \in blocklist
    /\ DOMAIN blocked = IPs
    /\ blocked[ret.ip] = 0
    /\ \A ip \in IPs \ {ret.ip} : blocked[ip] = NewLimiter

\* A call has just admitted a request of the blocked client ip through its
\* token bucket.
Admits(ip) ==
    /\ ret'.op \in {"Allow", "Wait"}
    /\ ret'.ip = ip
    /\ ret'.out \in {"true", "nil"}
    /\ ip \in blocklist

\* C19 as claimed: over any interleaving of Allow, Wait and Close calls by
\* concurrent callers, a blocked client is admitted only when no request of
\* it has been admitted since the last refill of its bucket (admitted holds
\* the clients admitted since their last refill).
C19_BurstOne ==
    [][\A ip \in IPs : Admits(ip) => ip \notin admitted]_vars

\* C19: burst of exactly 1 as long as Close has not been called: over any
\* interleaving of Allow and Wait calls by concurrent callers, a blocked
\* client is
\* admitted only when no request of it has been admitted since the last
\* refill of its bucket.
C19_BurstOneUntilClose ==
    [][\A ip \in IPs : (NoClose /\ Admits(ip)) => ip \notin admitted]_vars

\* Before any Close, a blocked client that was admitted since the last
\* refill has just been denied, and another caller for the same client
\* holds the limiter and is about to ask it.
C19_Witness ==
    /\ NoClose
    /\ ret.op = "Allow"
    /\ ret.out = "false"
    /\ ret.ip \in blocklist
    /\ ret.ip \in admitted
    /\ \E p \in Procs : Pc(p) = "take" /\ callers[p].ip = ret.ip

\* C20: in every reachable state the clients that have a limiter entry are
\* on the blocklist: a limiter is created only for a client the analyzer has
\* promoted, never for a verified bot, a fake bot or an unblocked user.
C20_LimitersOnlyForBlocked == DOMAIN blocked \subseteq blocklist

\* C21: publication of the blocklist is atomic.  In every reachable state of
\* the step-wise model: a map that has been published holds exactly the keys
\* it held when it was published (it is never written again); the pointer
\* refers to a published map; every published version is the version before
\* it plus one client; every reader that has loaded the pointer holds a
\* published version that is the current one or an earlier one; and what
\* Blocked returns is membership in the version it loaded, as that version
\* was published.
C21_AtomicPublication ==
    /\ \A id \in DOMAIN snap : id \in DOMAIN maps /\ maps[id] = snap[id]
    /\ ptr \in DOMAIN snap
    /\ \A id \in DOMAIN snap :
          id > 1 => /\ id - 1 \in DOMAIN snap
                    /\ \E ip \in IPs \ snap[id - 1] :
                          snap[id] = snap[id - 1] \cup {ip}
    /\ \A r \in Readers :
          Pc(r) = "lookup" => callers[r].bl \in DOMAIN snap /\ callers[r].bl <= ptr
    /\ ret.op = "Blocked" =>
          /\ ret.ver \in DOMAIN snap
          /\ ret.ver <= ptr
          /\ ret.out = (IF ret.ip \in snap[ret.ver] THEN "true" ELSE "false")

\* A reader that loaded the pointer before a publish answered from the old
\* version: it reports a client unblocked that the current version holds,
\* while the worker is filling the next map, which holds an earlier client
\* but not yet the new one, and another reader holds the current version.
C21_Witness ==
    /\ ret.op = "Blocked"
    /\ ret.out = "false"
    /\ ret.ver < ptr
    /\ ret.ip \in maps[ptr]
    /\ Pc(WorkerId) = "copy"
    /\ callers[WorkerId].todo = {}
    /\ maps[callers[WorkerId].new] # {}
    /\ \E r \in Readers : Pc(r) = "lookup" /\ callers[r].bl = ptr

\* The pages of ip that requests waiting in the queue carry.
Queued(ip) ==
    {PageOf(queue[i].Path) : i \in {j \in 1 .. Len(queue) : queue[j].IP = ip}}

\* C22: under any interleaving of Record calls with the worker, every
\* client's visit count is at most the number of distinct pages enqueued for
\* it in the current generation: the pages of it the worker has processed
\* since the last rotation together with those still waiting in the queue.
C22_CountWithinEnqueued ==
    \A ip \in IPs : Count(counter, ip) <= Cardinality(pages[ip] \cup Queued(ip))

\* C23 as claimed: the n-th Visit of a client since the last Clear returns n
\* for every n, whatever visits of other clients lie in between, and Count
\* then returns n.
C23_NthVisitReturnsN ==
    ret.op = "Visit" =>
        /\ ret.out = visits[ret.ip]
        /\ Count(counter, ret.ip) = visits[ret.ip]

\* C23: the first Visit of a client returns 1 and its n-th Visit since the
\* last Clear returns n, visits of other clients in between included, as
\* long as the client's entry has not been evicted since that Clear and n is
\* less than 65536; Count then returns the same n.  After any Visit, Count
\* returns what the Visit returned.
C23_NthVisitUnlessEvicted ==
    ret.op = "Visit" =>
        /\ Count(counter, ret.ip) = ret.out
        /\ (ret.ip \notin evicted /\ visits[ret.ip] < Uint16)
              => ret.out = visits[ret.ip]

\* The third Visit of a client returned 3 although another client was
\* visited, and held beside it, in between.
C23_Witness ==
    /\ ret.op = "Visit"
    /\ ret.out = 3
    /\ visits[ret.ip] = 3
    /\ ret.ip \notin evicted
    /\ \E ip \in Clients \ {ret.ip} : visits[ip] > 0 /\ Count(counter, ip) > 0

\* C24: after any sequence of Visit, Count and Clear calls the counter holds
\* at most maxSize distinct clients, for every maxSize (0 and 1 included).
C24_AtMostMaxSize ==
    Cardinality(DOMAIN counter.data) <= counter.maxSize

\* The same for counters whose maxSize is at least 1.
C24_AtMostMaxSizeFromOne ==
    counter.maxSize >= 1 => Cardinality(DOMAIN counter.data) <= counter.maxSize

\* The clients the counter holds, the latest visited first, by the history
\* of the calls (not by the counter's own list).
HeldByRecency == SelectSeq(recency, LAMBDA ip : ip \in DOMAIN counter.data)

\* C25: eviction is least-recently-visited.  When a Visit inserts a new
\* client into a counter that holds maxSize (at least 1) clients, exactly one
\* entry is removed: that of the held client whose latest Visit is the
\* oldest in the history of the calls (a Visit of an existing client having
\* refreshed it); its Count becomes 0 and every other client keeps its
\* count.  A Visit that finds room, or that finds the client, removes
\* nothing.  So after maxSize + 1 distinct clients, each visited once, the
\* first of them has Count 0.
C25_EvictsLeastRecentlyVisited ==
    [][(ret'.op = "Visit" /\ counter.maxSize >= 1) =>
          LET ip == ret'.ip
              held == DOMAIN counter.data
              full == Cardinality(held) = counter.maxSize
              oldest == HeldByRecency[Len(HeldByRecency)]
          IN /\ (ip \notin held /\ full)
                   => /\ DOMAIN counter'.data = (held \ {oldest}) \cup {ip}
                      /\ Count(counter', oldest) = 0
                      /\ Count(counter', ip) = 1
                      /\ \A o \in held \ {oldest} :
                            Count(counter', o) = Count(counter, o)
             /\ (ip \in held \/ ~full)
                   => /\ DOMAIN counter'.data = held \cup {ip}
                      /\ \A o \in held \ {ip} :
                            Count(counter', o) = Count(counter, o)
             /\ (/\ Len(recency') = counter.maxSize + 1
                 /\ \A c \in Clients : visits'[c] <= 1)
                   => Count(counter', recency'[Len(recency')]) = 0]_vars

\* With maxSize 2: two clients were visited, the first of them was visited
\* again, and the third client's Visit evicted the second, not the first.
C25_Witness ==
    /\ counter.maxSize = 2
    /\ ret.op = "Visit"
    /\ ret.out = 1
    /\ Len(recency) = 3
    /\ visits[recency[2]] = 2
    /\ visits[recency[3]] = 1
    /\ Count(counter, recency[2]) = 2
    /\ Count(counter, recency[3]) = 0
    /\ evicted = {recency[3]}

\* C26: within one generation TestAndAdd(k) returns true on every call
\* after the first with the same k (no false negatives), and returns false
\* on the first call with k unless every position of k was set by other keys
\* of the generation (a false positive; never in an empty generation); a
\* call that returns true leaves the filter as it was, a call that returns
\* false adds the positions of k to the current generation and nothing
\* else.  So the current generation always holds exactly the positions of
\* the keys applied in it, and every one of them tests present.
C26_TestAndAdd ==
    /\ [](/\ bloom.current = LocationsOf(added)
          /\ \A k \in added : BloomTest(bloom.current, k))
    /\ [][ret'.op = "TestAndAdd" =>
            /\ ~ret'.first => ret'.out = "true"
            /\ (ret'.first /\ ret'.out = "true")
                  => /\ added # {}
                     /\ BloomLocations(ret'.key) \subseteq LocationsOf(added)
            /\ ret'.out = "true" => bloom' = bloom
            /\ ret'.out = "false"
                  => /\ bloom'.current =
                           bloom.current \cup BloomLocations(ret'.key)
                     /\ bloom'.previous = bloom.previous
                     /\ TestAndAdd(bloom', ret'.key).seen]_vars

\* After a rotation that kept an earlier generation as previous, a key was
\* applied to the new generation for the second time and reported seen,
\* while another key of the generation is held beside it.
C26_Witness ==
    /\ ret.op = "TestAndAdd"
    /\ ret.out = "true"
    /\ ~ret.first
    /\ bloom.previous # {}
    /\ Cardinality(bloom.current) >= 2
    /\ bloom.current # bloom.previous

\* C27: a failure to initialize the default classifier is returned by New
\* as an error; New never aborts the process and never hands back a Limiter
\* whose classifier is unusable, so no later Allow or Wait crashes on it.
C27_InitFailureReturned ==
    /\ (ret.op = "New" /\ ret.status = "init failed") => ret.out = "error"
    /\ ret.out # "panic"
    /\ kb # "nil"

\* The errors a context reports: ctx.Err() is Canceled or DeadlineExceeded.
ContextErrors == {"context.Canceled", "context.DeadlineExceeded"}

\* C28: Wait returns nil, an error of the caller's context, or the sentinel
\* ErrLimit, and nothing else; and the sentinel differs from the context's
\* errors, so that what a denied bot (status failed or unknown) gets, the
\* sentinel, is never an error a context reports.
C28_SentinelDistinct ==
    /\ ret.op = "Wait" => ret.out \in {"nil", ErrLimit} \cup ContextErrors
    /\ BotCall(ret, {"Wait"}, {"failed", "unknown"})
          => ret.out = ErrLimit /\ ret.out \notin ContextErrors

\* The worker has taken the pending tick: the step is a rotation.
RotationStep == tick /\ ~tick' /\ worker = "running" /\ worker' = "running"

\* C29: a rotation resets the counting state and nothing else.  After it
\* every client's Count is 0 and the counter holds nothing; the filter's
\* current generation is empty and its previous generation is the old
\* current one, which is not consulted: a request for any (client, page)
\* pair the worker processed before the rotation, whatever seeds its hashes
\* draw, would be reported unseen and counted as 1.  The queue, the
\* blocklist, the limiter pool and the stop channel are as they were.
C29_RotationResets ==
    [][RotationStep =>
          /\ \A ip \in IPs : Count(counter', ip) = 0
          /\ counter'.data = EmptyMap
          /\ counter'.lru = << >>
          /\ counter'.index = {}
          /\ bloom'.current = {}
          /\ bloom'.previous = bloom.current
          /\ \A ip \in IPs : \A page \in pages[ip] : \A s1, s2 \in Seeds :
                \A a \in {analyze(bloom', counter', blocklist',
                                  [IP |-> ip, Path |-> hashStr(s1, page)], s2)} :
                    ~a.seen /\ a.count = 1 /\ Count(a.counter, ip) = 1
          /\ queue' = queue
          /\ blocklist' = blocklist
          /\ blocked' = blocked
          /\ stop' = stop]_vars

\* A rotation has just emptied the counting state (nothing processed since)
\* while a client is blocked, a request waits in the queue and the filter
\* keeps the old generation as previous.
C29_Witness ==
    /\ ~tick
    /\ worker = "running"
    /\ \A ip \in IPs : pages[ip] = {} /\ Count(counter, ip) = 0
    /\ bloom.current = {}
    /\ Cardinality(bloom.previous) >= 2
    /\ blocklist # {}
    /\ Len(queue) > 0

\* C30: the worker analyzes the accepted requests in the order in which the
\* queue accepted them, whatever rotations are interleaved: in every
\* reachable state the requests analyzed so far, followed by those waiting
\* in the queue, are exactly the requests accepted so far, in their order
\* (a dropped request is in neither).
C30_ProcessedInOrder == proc \o queue = enq

\* Two different requests were analyzed in their order of arrival with a
\* rotation between them, and a third, different one waits in the queue.
C30_Witness ==
    /\ Len(proc) = 2
    /\ proc[1] # proc[2]
    /\ Len(queue) = 1
    /\ queue[1] # proc[2]
    /\ bloom.previous # {}
    /\ bloom.current # {}

\* C31, as claimed: between two Clear calls, a Visit of a client never
\* returns less than the previous Visit of that client returned.
C31_VisitNeverDecreases ==
    [][(ret'.op = "Visit" /\ visits[ret'.ip] >= 1)
          => ret'.out >= last[ret'.ip]]_vars

\* C31, amended: between two Clear calls, a Visit of a client returns one
\* more than the previous Visit of that client returned, whatever other
\* clients were visited in between, provided the client's entry was not
\* evicted since (then the Visit returns 1) and the previous result was
\* below 65535 (after 65535 the Visit returns 0).
C31_VisitAddsOneWhileHeld ==
    [][(ret'.op = "Visit" /\ visits[ret'.ip] >= 1)
          => LET ip == ret'.ip
             IN /\ (ip \in DOMAIN counter.data /\ last[ip] < Uint16 - 1)
                      => ret'.out = last[ip] + 1
                /\ (ip \in DOMAIN counter.data /\ last[ip] = Uint16 - 1)
                      => ret'.out = 0
                /\ ip \notin DOMAIN counter.data => ret'.out = 1]_vars

\* A Visit returned 65535, one more than the client's Visit before, while
\* the counter holds a second client.
C31_Witness ==
    /\ ret.op = "Visit"
    /\ ret.ip = "ip1"
    /\ ret.out = Uint16 - 1
    /\ visits["ip1"] = NearWrap + 2
    /\ "ip2" \in DOMAIN counter.data

\* C32: Count is read-only.  A call of Count, for a client that is held or
\* not, leaves the count map, the index and the recency list as they were,
\* so that the next Visit of any client returns the same and evicts the same
\* client as it would have without the call; for a client that is not held
\* it returns 0 and creates no entry, for a held one the stored count.
C32_CountReadOnly ==
    [][ret'.op = "Count" =>
          /\ counter' = counter
          /\ \A ip \in Clients : Visit(counter', ip) = Visit(counter, ip)
          /\ ret'.ip \notin DOMAIN counter.data
                => ret'.out = 0 /\ ret'.ip \notin DOMAIN counter'.data
          /\ ret'.ip \in DOMAIN counter.data
                => ret'.out = counter.data[ret'.ip]]_vars

\* Count was called for the least recently visited of the two clients of a
\* full counter, the one the next eviction removes, and returned its count.
C32_Witness ==
    /\ ret.op = "Count"
    /\ counter.maxSize = 2
    /\ Len(counter.lru) = 2
    /\ ret.ip = counter.lru[2]
    /\ ret.out = 2

\* C33: Clear resets the counter to its initial empty state.  After a call
\* of Clear the counter is the one NewCounter makes, with the maxSize it
\* had: Count is 0 for every client, a Visit of any client returns 1 and
\* evicts nothing, and whatever is called next behaves as on a freshly
\* constructed counter of that maxSize.
C33_ClearResets ==
    [][ret'.op = "Clear" =>
          /\ counter' = [NewCounter EXCEPT !.maxSize = counter.maxSize]
          /\ \A ip \in Clients :
                /\ Count(counter', ip) = 0
                /\ Visit(counter', ip).count = 1
                /\ DOMAIN Visit(counter', ip).counter.data = {ip}]_vars

\* Clear was called on a full counter of two clients and left it empty.
C33_Witness ==
    /\ ret.op = "Clear"
    /\ Cardinality(ret.dropped) = 2
    /\ counter.maxSize = 2
    /\ counter.data = EmptyMap
    /\ counter.lru = << >>

\* The identities in sequence q.
IdsOf(q) == {q[i] : i \in 1 .. Len(q)}

\* The objects the goroutines inside Record hold.
RecordingIds == {recording[g].id : g \in DOMAIN recording}

\* The worker's object, if it has one.
TakenIds == IF taken = NoReq THEN {} ELSE {taken.id}

\* The accepted requests that were not analyzed yet, by the fields their
\* objects have now: the one the worker received, then those in the queue.
Pending ==
    (IF taken # NoReq /\ ~taken.analyzed THEN <<objs[taken.id]>> ELSE << >>)
    \o [i \in 1 .. Len(queue) |-> objs[queue[i]]]

\* C34: every request the queue accepted is analyzed at most once and with
\* the client and the page digest its Record call wrote, under every
\* interleaving of Record calls, drops and the worker.  In every reachable
\* state each Request object has one owner (the pool, one goroutine inside
\* Record, one place in the queue, or the worker), so that no Record writes
\* an object that waits in the queue or is being analyzed; and the requests
\* analyzed so far, followed by those received or waiting as they read now,
\* are the requests accepted so far as they were written.
C34_RequestOwnedOnce ==
    /\ free \cap IdsOf(queue) = {}
    /\ free \cap TakenIds = {}
    /\ free \cap RecordingIds = {}
    /\ IdsOf(queue) \cap TakenIds = {}
    /\ IdsOf(queue) \cap RecordingIds = {}
    /\ TakenIds \cap RecordingIds = {}
    /\ Cardinality(IdsOf(queue)) = Len(queue)
    /\ \A g, h \in DOMAIN recording :
          recording[g].id = recording[h].id => g = h
    /\ proc \o Pending = enq

\* The only Request object ever made carried two different requests to the
\* worker, one after the other, and is back in the pool.
C34_Witness ==
    /\ DOMAIN objs = {1}
    /\ Len(proc) = 2
    /\ proc[1] # proc[2]
    /\ taken = NoReq
    /\ free = {1}

\* A step of the worker's analyze: it received the head of the queue.
AnalyzeStep ==
    /\ worker = "running" /\ worker' = "running"
    /\ Len(queue) > 0 /\ queue' = Tail(queue)
    /\ tick' = tick
    /\ ret' = NoCall /\ stop' = stop /\ blocked' = blocked

\* A step of the worker's rotate: it received the tick.
RotateStep ==
    /\ worker = "running" /\ worker' = "running"
    /\ tick /\ ~tick'
    /\ queue' = queue
    /\ ret' = NoCall /\ stop' = stop /\ blocked' = blocked

\* C35: the filter and the counter belong to the worker, and the worker
\* alone writes the blocklist.  Every step that changes the filter, the
\* counter or the blocklist is a step of the worker, either its analyze or
\* its rotate and never both at once; a step of Allow or Wait (with the
\* Blocked and Record calls inside), of Close or of the buckets' refill
\* leaves all three as they are; rotate leaves the blocklist as it is.
C35_WorkerOwnsCounting ==
    [][/\ (bloom' # bloom \/ counter' # counter \/ blocklist' # blocklist)
             => (AnalyzeStep \/ RotateStep) /\ ~(AnalyzeStep /\ RotateStep)
       /\ (ret'.op \in {"Allow", "Wait"} \/ stop' # stop \/ blocked' # blocked)
             => UNCHANGED <<bloom, counter, blocklist>>
       /\ RotateStep => blocklist' = blocklist]_vars

\* A call of Allow returns for a client the worker has blocked, after a
\* rotation, while the worker's filter and counter hold a later request and
\* another one waits in the queue.
C35_Witness ==
    /\ ret.op = "Allow"
    /\ ret.ip \in blocklist
    /\ bloom.previous # {}
    /\ bloom.current # {}
    /\ counter.data # EmptyMap
    /\ Len(queue) > 0

\* C36: every published version of the blocklist is the previous version
\* plus exactly one new identity, block of an identity that is already
\* published is a no-op, and no promotion is ever lost.  A step that
\* publishes a map publishes the keys of the map published before it and
\* one identity that was not among them, the one block was called for; a
\* call of block that finds its identity in the published map returns
\* without making or publishing anything; and in every reachable state the
\* published map holds every identity any earlier version held.
C36_VersionAddsOne ==
    /\ [](\A id \in DOMAIN snap : snap[id] \subseteq maps[ptr])
    /\ [][/\ ptr' # ptr
               => /\ Pc(WorkerId) = "store"
                  /\ callers[WorkerId].ip \notin maps[ptr]
                  /\ maps'[ptr'] = maps[ptr] \cup {callers[WorkerId].ip}
                  /\ Cardinality(maps'[ptr']) = Cardinality(maps[ptr]) + 1
          /\ (Pc(WorkerId) = "exists" /\ callers[WorkerId].ip \in maps[ptr])
               => /\ \/ WorkerId \notin DOMAIN callers'
                     \/ callers'[WorkerId] = callers[WorkerId]
                  /\ ptr' = ptr
                  /\ maps' = maps
                  /\ snap' = snap]_vars

\* The third version is published: it holds the identity of the second
\* version and one more.
C36_Witness ==
    /\ ptr = 3
    /\ Cardinality(snap[2]) = 1
    /\ snap[2] \subseteq maps[3]
    /\ Cardinality(maps[3]) = 2
    /\ WorkerId \notin DOMAIN callers

\* q is p with requests added behind.
Extends(q, p) == Len(q) >= Len(p) /\ SubSeq(q, 1, Len(p)) = p

\* C37: after Close the worker eventually terminates, even if Record calls
\* keep the queue filled and ticks keep arriving; and once it has
\* terminated it stays terminated, the blocklist, the filter and the counter
\* never change again, and the requests in the queue stay there.
C37_WorkerTerminates ==
    /\ stop ~> (worker = "stopped")
    /\ [][worker = "stopped"
             => /\ worker' = "stopped"
                /\ UNCHANGED <<blocklist, bloom, counter>>
                /\ Extends(queue', queue)]_vars

\* The worker has terminated with a request left in the queue and requests
\* of the running generation counted.
C37_Witness ==
    /\ stop
    /\ worker = "stopped"
    /\ Len(queue) > 0
    /\ counter.data # EmptyMap
    /\ bloom.previous # {}

\* The state a rotation leaves: the tick is consumed, the current
\* generation of the filter and the counter are empty.
Rotated ==
    ~tick /\ bloom.current = {} /\ counter.data = EmptyMap

\* C38: rotation is not starved by load.  Whenever a tick is pending, the
\* worker eventually rotates or has stopped, also when Record calls keep
\* the queue filled; and a step that moves the filter's generations or
\* empties the counter happens only when a tick is pending, consumes it and
\* is taken by the running worker.
C38_TickLeadsToRotation ==
    /\ tick ~> (Rotated \/ worker = "stopped")
    /\ [][(\/ bloom'.previous # bloom.previous
           \/ bloom.current # {} /\ bloom'.current = {}
           \/ counter.data # EmptyMap /\ counter'.data = EmptyMap)
             => tick /\ ~tick' /\ worker = "running"]_vars

\* The worker has rotated with a request waiting in the queue: the
\* generation counted before is the filter's previous one.
C38_Witness ==
    /\ worker = "running"
    /\ ~stop
    /\ Rotated
    /\ bloom.previous # {}
    /\ Len(queue) = QueueCap

\* C39: Allow and Wait record the user agent as the page, so a client that
\* sends one user agent in all its requests has visited one page: its count
\* never exceeds 1 and, PageThreshold being 2 or more, it is never put on
\* the blocklist, however many requests it makes.
C39_SameAgentNeverBlocked ==
    /\ blocklist = {}
    /\ \A ip \in IPs : Count(counter, ip) <= 1

\* The count map, the index and the recency list hold the same clients,
\* each of them once in the list.
SameClients(c) ==
    /\ DOMAIN c.data = c.index
    /\ IdsOf(c.lru) = c.index
    /\ Len(c.lru) = Cardinality(c.index)

\* C40, as claimed: after every Visit and Clear the three structures hold
\* the same clients, each once in the list, and every stored count is at
\* least 1.
C40_StructureAndCountsPositive ==
    /\ SameClients(counter)
    /\ \A ip \in DOMAIN counter.data : counter.data[ip] >= 1

\* C40, amended: after every Visit, Count and Clear the three structures
\* hold the same clients, each once in the list, and every stored count is
\* a uint16 that is at least 1 unless the client was visited 65536 times or
\* more since the last Clear (the count wraps to 0 and goes on from there).
C40_StructureAndCounts ==
    /\ SameClients(counter)
    /\ \A ip \in DOMAIN counter.data :
          /\ counter.data[ip] \in 0 .. Uint16 - 1
          /\ counter.data[ip] >= 1 \/ visits[ip] >= Uint16

\* A Visit of a new client evicted one from a full counter of two; that one
\* was visited again and evicted the next.
C40_Witness ==
    /\ ret.op = "Visit"
    /\ counter.maxSize = 2
    /\ Len(counter.lru) = 2
    /\ Cardinality(evicted) = 2
    /\ ret.ip \in evicted
    /\ ret.out = 1

====
